---- MODULE Spec2Model ----
(***************************************************************************)
(* Streaming message pipeline of the chat backend: the two stream routes   *)
(* (GET /stream, POST /stream) of backend/routes/messages.js, the          *)
(* conversation routes, and the utilities they are built from.             *)
(*                                                                         *)
(* Strings are sequences of one-character strings.  One request is served  *)
(* per behaviour, against a database that already holds two conversations. *)
(***************************************************************************)
EXTENDS Integers, Sequences, FiniteSets, TLC

(* ------------------------------ bounds --------------------------------- *)

\* Largest number of fragments the provider yields in one streamed attempt.
MaxFragments == 3

\* Largest number of sends the client makes.
MaxSubmits == 2

\* Largest number of chunk events the client receives for one send.
MaxChunks == 2

\* Largest value of the client's clock (Date.now()).
MaxNow == 4

\* Largest value of the clock of the streaming handler, in ticks.
MaxTime == 5

\* The interval of the heartbeat (30000 ms by default), in ticks.
IntervalTicks == 2

\* Largest window and largest limit a rate limiter is created with, and
\* largest value of the limiter's clock, in ms.
MaxWindow == 2

MaxLimit == 2

MaxLimiterNow == 4

\* Largest number of requests that reach a rate limiter.
MaxRequests == 5

(* ------------------------- program constants --------------------------- *)

\* const maxRetries = 3  (routes) / maxRetries = 3 (callOpenAIWithRetry)
maxRetries == 3

\* content.substring(0, 50) / generateConversationTitle(content, maxLength = 50)
maxLength == 50

\* validateMessageContent: content.length > 10000
MaxContentLength == 10000

(* ------------------------------ strings -------------------------------- *)

\* The text of n characters c.
Rep(c, n) == SubSeq([i \in 1..n |-> c], 1, n)

Range(f) == {f[i] : i \in DOMAIN f}

Last(seq) == seq[Len(seq)]

Min(S) == CHOOSE x \in S : \A y \in S : x <= y

Max(S) == CHOOSE x \in S : \A y \in S : x >= y

\* Characters String.prototype.trim() removes.
WhiteSpace == {" ", "\t", "\n"}

\* String.prototype.trim(): the text between the first and the last
\* character that is not white space.
Trim(s) ==
  IF \A i \in 1..Len(s) : s[i] \in WhiteSpace THEN <<>>
  ELSE LET first == CHOOSE i \in 1..Len(s) :
                      s[i] \notin WhiteSpace /\ \A j \in 1..(i - 1) : s[j] \in WhiteSpace
           last  == CHOOSE i \in 1..Len(s) :
                      s[i] \notin WhiteSpace /\ \A j \in (i + 1)..Len(s) : s[j] \in WhiteSpace
       IN  SubSeq(s, first, last)

\* String.prototype.substring(0, n)
Substring0(s, n) == SubSeq(s, 1, IF Len(s) < n THEN Len(s) ELSE n)

\* String.prototype.split(' '): the pieces between single spaces; never empty.
RECURSIVE SplitSpace(_)
SplitSpace(s) ==
  LET sp == {i \in 1..Len(s) : s[i] = " "}
  IN  IF sp = {} THEN <<s>>
      ELSE <<SubSeq(s, 1, Min(sp) - 1)>> \o SplitSpace(SubSeq(s, Min(sp) + 1, Len(s)))

\* The three-character marker the code appends to a truncated title.
Dots == <<".", ".", ".">>

\* The one-character marker U+2026 (horizontal ellipsis).
Ellipsis == <<"U+2026">>

NewConversationTitle ==
  <<"N","e","w"," ","C","o","n","v","e","r","s","a","t","i","o","n">>

\* Texts that are only compared as a whole are held as one token.
FallbackText ==
  <<"I'm sorry, I'm experiencing technical difficulties. Please try again later.">>

DefaultInstruction == <<"Please analyze this file.">>

(* ------------------------------ requests ------------------------------- *)

NoText == <<>>

StreamOps == {"GET /stream", "POST /stream"}

ConversationOps == {"GET /:conversationId", "PUT /:id", "DELETE /:id", "GET /:id/export"}

UtilityOps ==
  {"callOpenAIWithRetry", "findOrCreateConversation", "validateMessageContent",
   "handleOpenAIError", "getErrorMessage"}

\* Request contents: absent field is contentGiven = FALSE.
Contents ==
  { <<>>, <<" ">>, <<"H","i">>, <<" ","h","i"," ">>,
    Rep("a", maxLength), Rep("a", maxLength + 1), Rep("a", MaxContentLength + 1) }

\* Credentials: none sent, a string that fails jwt.verify, and tokens that
\* verify and decode to a user id; user "G" has no row in the user table.
\* The caller with a valid credential is user "A"; user "B" owns conversation 2.
Credentials == {"none", "garbage", "token:A", "token:G"}

Users == {"A", "B"}

\* conversationId values: 0 stands for absent/empty (falsy); 1 and 2 exist
\* in the seeded store; 7 does not exist.
ConversationIds == {0, 1, 2, 7}

\* Texts the file-completion call may return (response.output_text).
FileTexts == { <<>>, <<"a"," ","b">>, <<"a"," "," ","b">>, <<" ","a">>, <<"a"," ">> }

\* error.message of a provider failure; may be the empty string.
ProviderErrors == {"", "Rate limit exceeded"}

(* --------------------------- provider failures ------------------------- *)

\* error.message of a provider failure as the sequence of its phrases; <<>>
\* is a failure without message.
NoFailure == <<>>

FailureTexts ==
  { NoFailure, <<"rate_limit_exceeded">>, <<"Request too large">>, <<"tokens per min">>,
    <<"Invalid API key">>, <<"timeout">>, <<"Connection error.">>,
    <<"Rate limit reached", "rate_limit_exceeded">> }

\* String.prototype.includes(phrase)
Includes(text, phrase) == \E i \in 1..Len(text) : text[i] = phrase

HighDemandMessage ==
  <<"I'm currently experiencing high demand. Please try again in a few minutes.">>

FileTooLargeMessage ==
  <<"The file is too large or I'm currently experiencing high demand. Please try with a smaller file or try again in a few minutes.">>

ConfigurationMessage == <<"API configuration error. Please contact support.">>

IssueMessage == <<"I encountered an issue processing your request. Please try again.">>

QuotaMessage == <<"API quota exceeded. Please contact support.">>

InvalidRequestMessage == <<"Invalid request. Please check your message and try again.">>

TimedOutMessage == <<"Request timed out. Please try again.">>

ClientGenericMessage == <<"Sorry, I encountered an error. Please try again.">>

\* handleOpenAIError(openaiError).message
HandleOpenAIError(text) ==
  LET errorMessage == IF text = <<>> THEN <<"OpenAI API error occurred">> ELSE text IN
  IF Includes(errorMessage, "rate_limit_exceeded") THEN HighDemandMessage
  ELSE IF Includes(errorMessage, "Request too large") \/ Includes(errorMessage, "tokens per min")
       THEN FileTooLargeMessage
  ELSE IF Includes(errorMessage, "Invalid API key") THEN ConfigurationMessage
  ELSE IssueMessage

\* getErrorMessage(error)
GetErrorMessage(text) ==
  IF Includes(text, "rate_limit_exceeded") THEN HighDemandMessage
  ELSE IF Includes(text, "insufficient_quota") THEN QuotaMessage
  ELSE IF Includes(text, "invalid_request_error") THEN InvalidRequestMessage
  ELSE IF Includes(text, "timeout") THEN TimedOutMessage
  ELSE FallbackText

\* handleEventData, case 'error': errorContent for data.error
ErrorContent(error) ==
  IF error = <<>> THEN ClientGenericMessage
  ELSE IF Includes(error, "rate_limit_exceeded") \/ Includes(error, "Request too large")
       THEN FileTooLargeMessage
  ELSE IF Includes(error, "tokens per min") THEN HighDemandMessage
  ELSE <<"Error: ">> \o error

(* ------------------------------- store --------------------------------- *)

SeedConversations ==
  (1 :> [userId |-> "A", title |-> <<"H","i">>, updatedAt |-> 1]) @@
  (2 :> [userId |-> "B", title |-> <<"s","e","c","r","e","t">>, updatedAt |-> 2])

SeedMessages ==
  << [id |-> 1, conversationId |-> 1, userId |-> "A", role |-> "user",
      content |-> <<"H","i">>],
     [id |-> 2, conversationId |-> 1, userId |-> "A", role |-> "assistant",
      content |-> <<"y","o">>],
     [id |-> 3, conversationId |-> 2, userId |-> "B", role |-> "user",
      content |-> <<"p","w","d">>] >>

VARIABLES
  req,            \* the request being served
  pc,             \* position of the handler
  user,           \* req.user ("" before authentication)
  conversation,   \* id of the resolved conversation (0: none yet)
  userMessage,    \* id of the persisted user message (0: none yet)
  assistantMessage, \* id of the persisted assistant message (0: none yet)
  conversations,  \* conversation table: id -> row
  messages,       \* message table, in creation order
  clock,          \* logical time of the store (createdAt / updatedAt)
  status,         \* HTTP status of the response (0: no header sent yet)
  body,           \* error or message text of a synchronous JSON response
  data,           \* rows carried by a synchronous JSON response
  result,         \* outcome of a utility call: "", "returned" or "threw"
  events,         \* SSE records written to the response, in order
  ended,          \* res.end() was called
  fullResponse,   \* accumulator of the assistant text
  retryCount,     \* failed provider attempts so far
  calls,          \* provider invocations so far
  waits,          \* backoff waits performed, in ms, in order
  words,          \* simulated streaming: fullResponse.split(' ')
  idx,            \* simulated streaming: next word (1-based)
  streamPos,      \* native streaming: fragments read in this attempt
  openaiMessages, \* history handed to the provider
  thrown,         \* what the handler's catch caught ("" : nothing)
  closed,         \* the peer closed the connection
  returned        \* text returned by a utility call

\* The state of useMessages (the client hook) and of its transport.
VARIABLES
  clientMessages,      \* messages: the local ordered list
  loading,             \* loading / isStreaming
  now,                 \* Date.now()
  tempUserMessage,     \* id of the provisional user message of the send in flight
  streamingMessageId,  \* id of the provisional assistant message of the send in flight
  transport,           \* "none", "eventsource", "fetch" or "closed"
  timers,              \* armed 5-minute timers of processStream, each with the
                       \* streamingMessageId its callback closes over
  emitted,             \* what the server side has put on the channel so far
  submits,             \* sends made so far
  currentConversation, \* id of the conversation shown (0: null)
  clientConversations, \* conversations of useConversations: ids, newest first
  closure,             \* currentConversation and conversations of the render
                       \* in which the sendMessage in flight was created
  pendingLoad          \* conversation whose loadMessages request is not yet
                       \* answered (0: none)

navVars == << currentConversation, clientConversations, closure, pendingLoad >>

\* The state of createStreamingHandler (streamingUtils.js) for one response.
VARIABLES
  handlerState,       \* "none", "running" (awaiting streamHandler) or "finished"
  heartbeatInterval,  \* "null", "armed" or "cleared"
  written,            \* res.write: what was written and at which tick
  resEnded,           \* number of calls of res.end()
  time,               \* the clock, in ticks
  due,                \* the tick at which the interval fires next
  peerGone            \* 'close' / 'aborted' was emitted

heartbeatVars == << handlerState, heartbeatInterval, written, resEnded, time, due, peerGone >>

\* The state of the rate limiting middleware (middleware/rateLimit.js).
VARIABLES
  rateLimit,    \* the module's table: key -> [count, resetTime], or Absent
  windowMs,     \* parameters of createRateLimit, held by the middleware's closure
  max,
  limiterNow,   \* Date.now(), in ms
  handled       \* the requests handled: key, time and what was done with each

limiterVars == << rateLimit, windowMs, max, limiterNow, handled >>

utilVars == << heartbeatVars, limiterVars >>

clientVars == << clientMessages, loading, now, tempUserMessage, streamingMessageId,
                 transport, timers, emitted, submits, navVars >>

vars == << req, pc, user, conversation, userMessage, assistantMessage,
           conversations, messages, clock, status, body, data, result,
           events, ended, fullResponse, retryCount, calls, waits, words, idx, streamPos,
           openaiMessages, thrown, closed, returned, clientVars, utilVars >>

(* --------------------------- store operations -------------------------- *)

\* jwt.verify(token, secret): the decoded userId, or "" when it throws.
JwtVerify(credential) ==
  CASE credential = "token:A" -> "A"
    [] credential = "token:G" -> "G"
    [] OTHER -> ""

\* Mutant of UserExists: the result of the lookup is not checked.
UserExistsUnchecked(id) == TRUE

\* prisma.user.findUnique({ where: { id } }): TRUE when a row exists.
UserExists(id) == id \in Users

\* Mutant of FindFirstConversation: the owner is left out of the filter.
FindFirstConversationById(id, userId) ==
  IF id \in DOMAIN conversations THEN id ELSE 0

\* prisma.conversation.findFirst({ where: { id, userId } }): the id of the
\* row, or 0 when there is none.
FindFirstConversation(id, userId) ==
  IF id \in DOMAIN conversations /\ conversations[id].userId = userId THEN id ELSE 0

NextConversationId == Max(DOMAIN conversations \cup {0}) + 1

NextMessageId == Max({messages[i].id : i \in 1..Len(messages)} \cup {0}) + 1

\* prisma.conversation.create({ data: { userId, title } })
CreateConversation(userId, title) ==
  conversations @@
    (NextConversationId :> [userId |-> userId, title |-> title, updatedAt |-> clock + 1])

\* prisma.message.create({ data: { content, role, conversationId, userId } })
CreateMessage(content, role, conversationId, userId) ==
  Append(messages, [id |-> NextMessageId, conversationId |-> conversationId,
                    userId |-> userId, role |-> role, content |-> content])

\* prisma.message.findMany({ where: { conversationId }, orderBy: createdAt asc })
FindManyMessages(conversationId) ==
  SelectSeq(messages, LAMBDA m : m.conversationId = conversationId)

\* conversationMessages.map(msg => ({ role, content }))
FormatMessagesForOpenAI(ms) ==
  [i \in 1..Len(ms) |-> [role |-> ms[i].role, content |-> ms[i].content]]

(* ------------------------------ response ------------------------------- *)

StartEvent(m, c) ==
  [type |-> "start", content |-> NoText, error |-> "", message |-> m, conversation |-> c]

ChunkEvent(text) ==
  [type |-> "chunk", content |-> text, error |-> "", message |-> 0, conversation |-> 0]

CompleteEvent(m) ==
  [type |-> "complete", content |-> NoText, error |-> "", message |-> m, conversation |-> 0]

ErrorEvent(msg) ==
  [type |-> "error", content |-> NoText, error |-> msg, message |-> 0, conversation |-> 0]

\* return res.status(code).json({ error: msg })
Respond(code, msg) ==
  /\ status' = code
  /\ body' = msg
  /\ ended' = TRUE
  /\ pc' = "done"

\* The handler's outer catch: res.write(error event); res.end().  A write
\* before writeHead sends the implicit 200 header.
Caught(what) ==
  /\ thrown' = what
  /\ events' = Append(events, ErrorEvent("Internal server error"))
  /\ status' = IF status = 0 THEN 200 ELSE status
  /\ ended' = TRUE
  /\ pc' = "done"

(* ------------------------------- Init ---------------------------------- *)

\* Keys of the limiter's table: req.ip + ':' + req.path
Ips == {"ip1", "ip2"}

Paths == {"/stream"}

Key(ip, path) == << ip, ":", path >>

Keys == {Key(ip, path) : ip \in Ips, path \in Paths}

\* !rateLimit[key]
Absent == [count |-> 0, resetTime |-> 0]

\* No response is being streamed by createStreamingHandler and no request
\* has reached a rate limiter.
HeartbeatIdle ==
  /\ handlerState = "none"
  /\ heartbeatInterval = "null"
  /\ written = <<>>
  /\ resEnded = 0
  /\ time = 0
  /\ due = 0
  /\ peerGone = FALSE

\* const rateLimit = {}
EmptyTable ==
  /\ rateLimit = [k \in Keys |-> Absent]
  /\ limiterNow = 0
  /\ handled = <<>>

UtilIdle ==
  /\ HeartbeatIdle
  /\ EmptyTable
  /\ windowMs = 1
  /\ max = 1

\* useState([]), useState(false): the hook before any send.
ClientIdle ==
  /\ clientMessages = <<>>
  /\ loading = FALSE
  /\ now = 1
  /\ tempUserMessage = <<"none">>
  /\ streamingMessageId = <<"none">>
  /\ transport = "none"
  /\ timers = {}
  /\ emitted = <<>>
  /\ submits = 0
  /\ currentConversation = 0
  /\ clientConversations = <<>>
  /\ closure = [currentConversation |-> 0, conversations |-> <<>>]
  /\ pendingLoad = 0

StreamRequests ==
  { r \in [op : StreamOps, credential : Credentials, conversationId : ConversationIds,
           contentGiven : BOOLEAN, content : Contents,
           hasFile : BOOLEAN, fileData : BOOLEAN, filename : BOOLEAN,
           title : {NoText}, format : {"json"}, failure : {NoFailure}] :
      /\ ~r.contentGiven => r.content = <<>>
      /\ ~r.hasFile => ~r.fileData /\ ~r.filename
      /\ r.hasFile => r.fileData \/ r.filename }

\* Requests to the routes behind the authentication middleware; :id is a
\* path segment and so never empty.
ConversationRequests ==
  [op : ConversationOps, credential : Credentials,
   conversationId : ConversationIds \ {0},
   contentGiven : {FALSE}, content : {NoText},
   hasFile : {FALSE}, fileData : {FALSE}, filename : {FALSE},
   title : {<<"n","e","w">>}, format : {"json", "txt", "xml"}, failure : {NoFailure}]

\* Calls of the utility functions, with user "A" as the userId argument.
UtilityCalls ==
  { r \in [op : UtilityOps, credential : {"token:A"}, conversationId : ConversationIds,
           contentGiven : BOOLEAN, content : Contents,
           hasFile : {FALSE}, fileData : {FALSE}, filename : {FALSE},
           title : {NoText}, format : {"json"}, failure : FailureTexts] :
      /\ ~r.contentGiven => r.content = <<>>
      /\ r.op = "callOpenAIWithRetry" => r.conversationId = 0 /\ ~r.contentGiven
      /\ r.op = "validateMessageContent" => r.conversationId = 0
      /\ r.op \in {"handleOpenAIError", "getErrorMessage"}
           => r.conversationId = 0 /\ ~r.contentGiven
      /\ r.op \notin {"handleOpenAIError", "getErrorMessage"} => r.failure = NoFailure }

Requests == StreamRequests \cup ConversationRequests \cup UtilityCalls

NoData == [conversation |-> 0, title |-> NoText, messages |-> <<>>]

Init ==
  /\ req \in Requests
  /\ pc = "begin"
  /\ user = ""
  /\ conversation = 0
  /\ userMessage = 0
  /\ assistantMessage = 0
  /\ conversations = SeedConversations
  /\ messages = SeedMessages
  /\ clock = 2
  /\ status = 0
  /\ body = ""
  /\ data = NoData
  /\ result = ""
  /\ events = <<>>
  /\ ended = FALSE
  /\ fullResponse = <<>>
  /\ retryCount = 0
  /\ calls = 0
  /\ waits = <<>>
  /\ words = <<>>
  /\ idx = 0
  /\ streamPos = 0
  /\ openaiMessages = <<>>
  /\ thrown = ""
  /\ closed = FALSE
  /\ returned = NoText
  /\ ClientIdle
  /\ UtilIdle

(* --------------------------- stream routes ----------------------------- *)

IsStream == req.op \in StreamOps

\* !content || !content.trim()
ContentBlank(r) == ~r.contentGiven \/ Len(r.content) = 0 \/ Len(Trim(r.content)) = 0

\* GET /stream: if (!content || !content.trim()) -> 400
GetValidationFails(r) == ContentBlank(r)

\* POST /stream: if ((!content || !content.trim()) && !hasFile) -> 400
PostValidationFails(r) == ContentBlank(r) /\ ~r.hasFile

ValidationFails(r) ==
  IF r.op = "GET /stream" THEN GetValidationFails(r) ELSE PostValidationFails(r)

ValidationMessage(r) ==
  IF r.op = "GET /stream" THEN "Message content is required"
  ELSE "Message content or file is required"

Validate ==
  /\ IsStream
  /\ pc = "begin"
  /\ IF ValidationFails(req)
     THEN /\ Respond(400, ValidationMessage(req))
     ELSE /\ pc' = "authenticate"
          /\ UNCHANGED << status, body, ended >>
  /\ UNCHANGED << data, result >>
  /\ UNCHANGED << req, user, conversation, userMessage, assistantMessage,
                  conversations, messages, clock, events, fullResponse,
                  retryCount, calls, waits, words, idx, streamPos,
                  openaiMessages, thrown >>
  /\ UNCHANGED << closed, returned >>
  /\ UNCHANGED clientVars
  /\ UNCHANGED utilVars

\* Lines 22-45: missing credential, jwt.verify, user lookup.  A failure of
\* the lookup is caught by the inner catch and answered like a bad token.
Authenticate ==
  /\ IsStream
  /\ pc = "authenticate"
  /\ IF req.credential = "none"
     THEN /\ Respond(401, "Authorization required")
          /\ user' = user
     ELSE \E storeFails \in BOOLEAN :
            IF JwtVerify(req.credential) = "" \/ storeFails
               \/ ~UserExists(JwtVerify(req.credential))
            THEN /\ Respond(401, "Invalid token")
                 /\ user' = user
            ELSE /\ user' = JwtVerify(req.credential)
                 /\ pc' = "resolve"
                 /\ UNCHANGED << status, body, ended >>
  /\ UNCHANGED << data, result >>
  /\ UNCHANGED << req, conversation, userMessage, assistantMessage,
                  conversations, messages, clock, events, fullResponse,
                  retryCount, calls, waits, words, idx, streamPos,
                  openaiMessages, thrown >>
  /\ UNCHANGED << closed, returned >>
  /\ UNCHANGED clientVars
  /\ UNCHANGED utilVars

\* content.substring(0, 50) + (content.length > 50 ? '...' : '')
GeneratedTitle(content) ==
  Substring0(content, maxLength) \o (IF Len(content) > maxLength THEN Dots ELSE <<>>)

\* Lines 47-68: load the caller's conversation, or create one.
ResolveConversation ==
  /\ IsStream
  /\ pc = "resolve"
  /\ \E storeFails \in BOOLEAN :
       IF req.conversationId # 0
       THEN IF storeFails
            THEN /\ Caught("StoreError")
                 /\ UNCHANGED << body, conversation, conversations, clock >>
            ELSE IF FindFirstConversation(req.conversationId, user) = 0
            THEN /\ Respond(404, "Conversation not found")
                 /\ UNCHANGED << thrown, events, conversation, conversations, clock >>
            ELSE /\ conversation' = FindFirstConversation(req.conversationId, user)
                 /\ pc' = "userMessage"
                 /\ UNCHANGED << status, body, ended, thrown, events,
                                 conversations, clock >>
       ELSE IF ~req.contentGiven
            THEN /\ Caught("TypeError")
                 /\ UNCHANGED << body, conversation, conversations, clock >>
            ELSE IF storeFails
            THEN /\ Caught("StoreError")
                 /\ UNCHANGED << body, conversation, conversations, clock >>
            ELSE /\ conversations' = CreateConversation(user, GeneratedTitle(req.content))
                 /\ conversation' = NextConversationId
                 /\ clock' = clock + 1
                 /\ pc' = "userMessage"
                 /\ UNCHANGED << status, body, ended, thrown, events >>
  /\ UNCHANGED << data, result >>
  /\ UNCHANGED << req, user, userMessage, assistantMessage, messages,
                  fullResponse, retryCount, calls, waits, words, idx, streamPos,
                  openaiMessages >>
  /\ UNCHANGED << closed, returned >>
  /\ UNCHANGED clientVars
  /\ UNCHANGED utilVars

\* Lines 70-98: persist the user message, then writeHead and the start event.
PersistUserMessage ==
  /\ IsStream
  /\ pc = "userMessage"
  /\ \E storeFails \in BOOLEAN :
       IF ~req.contentGiven
       THEN /\ Caught("TypeError")
            /\ UNCHANGED << userMessage, messages, clock >>
       ELSE IF storeFails
       THEN /\ Caught("StoreError")
            /\ UNCHANGED << userMessage, messages, clock >>
       ELSE /\ messages' = CreateMessage(Trim(req.content), "user", conversation, user)
            /\ userMessage' = NextMessageId
            /\ clock' = clock + 1
            /\ status' = 200
            /\ events' = Append(events, StartEvent(NextMessageId, conversation))
            /\ pc' = "history"
            /\ UNCHANGED << ended, thrown >>
  /\ UNCHANGED << data, result >>
  /\ UNCHANGED << req, user, conversation, assistantMessage, conversations, body,
                  fullResponse, retryCount, calls, waits, words, idx, streamPos,
                  openaiMessages >>
  /\ UNCHANGED << closed, returned >>
  /\ UNCHANGED clientVars
  /\ UNCHANGED utilVars

\* Lines 103-111: load the history in creation order.
FetchHistory ==
  /\ IsStream
  /\ pc = "history"
  /\ \E storeFails \in BOOLEAN :
       IF storeFails
       THEN /\ Caught("StoreError")
            /\ UNCHANGED openaiMessages
       ELSE /\ openaiMessages' = FormatMessagesForOpenAI(FindManyMessages(conversation))
            /\ pc' = "attempt"
            /\ UNCHANGED << status, events, ended, thrown >>
  /\ UNCHANGED << data, result >>
  /\ UNCHANGED << req, user, conversation, userMessage, assistantMessage,
                  conversations, messages, clock, body, fullResponse, retryCount,
                  calls, waits, words, idx, streamPos >>
  /\ UNCHANGED << closed, returned >>
  /\ UNCHANGED clientVars
  /\ UNCHANGED utilVars

\* hasFile === 'true' && fileData && filename  (POST: hasFile && fileData && filename)
IsFileBranch(r) == r.hasFile /\ r.fileData /\ r.filename

\* Mutant of Backoff: the same wait after every failed attempt.
BackoffConstant(n) == 1000

\* text: content || "Please analyze this file."  (the input_text sent with the
\* file; a missing or empty content is falsy, any other string is not)
InputText(r) ==
  IF ~r.contentGiven \/ r.content = <<>> THEN DefaultInstruction ELSE r.content

\* setTimeout(resolve, 1000 * retryCount)
Backoff(n) == 1000 * n

\* GET /stream, lines 180-185: after the last failed attempt the apology
\* becomes the response text and is written as a chunk; the loop then exits.
GetExhausted(msg) ==
  /\ fullResponse' = FallbackText
  /\ events' = Append(events, ChunkEvent(FallbackText))
  /\ pc' = "persist"
  /\ UNCHANGED << ended, waits >>

\* POST /stream, lines 393-400: an error event, res.end(), return.
PostExhausted(msg) ==
  /\ events' = Append(events,
                 ErrorEvent(IF msg = "" THEN "OpenAI API error occurred" ELSE msg))
  /\ ended' = TRUE
  /\ pc' = "done"
  /\ UNCHANGED << fullResponse, waits >>

\* Mutant of AttemptFailed: the retry starts again from the user-message write.
AttemptFailedRepeatingUserMessage(msg) ==
  /\ retryCount' = retryCount + 1
  /\ IF retryCount + 1 = maxRetries
     THEN IF req.op = "GET /stream" THEN GetExhausted(msg) ELSE PostExhausted(msg)
     ELSE /\ waits' = Append(waits, Backoff(retryCount + 1))
          /\ pc' = "userMessage"
          /\ UNCHANGED << fullResponse, events, ended >>

\* The catch of the retry loop (lines 176-189 / 389-404).
AttemptFailed(msg) ==
  /\ retryCount' = retryCount + 1
  /\ IF retryCount + 1 = maxRetries
     THEN IF req.op = "GET /stream" THEN GetExhausted(msg) ELSE PostExhausted(msg)
     ELSE /\ waits' = Append(waits, Backoff(retryCount + 1))
          /\ pc' = "attempt"
          /\ UNCHANGED << fullResponse, events, ended >>

\* One trip round the loop up to the provider's answer (lines 117-162): the
\* call throws, answers, or never settles; the await has no timeout, so a
\* call that never settles leaves the handler at the await ("awaiting").
ProviderCall ==
  /\ IsStream
  /\ pc = "attempt"
  /\ retryCount < maxRetries
  /\ calls' = calls + 1
  /\ \/ \E msg \in ProviderErrors :
          /\ AttemptFailed(msg)
          /\ UNCHANGED << words, idx, streamPos >>
     \/ /\ IsFileBranch(req)
        /\ \E text \in FileTexts :
             /\ fullResponse' = text
             /\ words' = SplitSpace(text)
             /\ idx' = 1
             /\ pc' = "simulate"
        /\ UNCHANGED << retryCount, events, ended, waits, streamPos >>
     \/ /\ ~IsFileBranch(req)
        /\ streamPos' = 0
        /\ pc' = "stream"
        /\ UNCHANGED << retryCount, fullResponse, events, ended, waits, words, idx >>
     \/ /\ pc' = "awaiting"
        /\ UNCHANGED << retryCount, fullResponse, events, ended, waits, words, idx,
                        streamPos >>
  /\ UNCHANGED << data, result >>
  /\ UNCHANGED << req, user, conversation, userMessage, assistantMessage,
                  conversations, messages, clock, status, body, openaiMessages,
                  thrown >>
  /\ UNCHANGED << closed, returned >>
  /\ UNCHANGED clientVars
  /\ UNCHANGED utilVars

\* Mutant of SimulatedChunk: the separating space is not put back.
SimulatedChunkWithoutSpace(ws, i) == ws[i]

\* chunk = (i === 0 ? words[i] : ' ' + words[i])
SimulatedChunk(ws, i) == IF i = 1 THEN ws[i] ELSE <<" ">> \o ws[i]

\* Lines 144-153: one word of the file answer is written, then a 50 ms pause.
SimulateChunk ==
  /\ IsStream
  /\ pc = "simulate"
  /\ idx <= Len(words)
  /\ events' = Append(events, ChunkEvent(SimulatedChunk(words, idx)))
  /\ idx' = idx + 1
  /\ pc' = IF idx = Len(words) THEN "persist" ELSE "simulate"
  /\ UNCHANGED << data, result >>
  /\ UNCHANGED << req, user, conversation, userMessage, assistantMessage,
                  conversations, messages, clock, status, body, ended,
                  fullResponse, retryCount, calls, waits, words, streamPos,
                  openaiMessages, thrown >>
  /\ UNCHANGED << closed, returned >>
  /\ UNCHANGED clientVars
  /\ UNCHANGED utilVars

\* The provider's stream: the delta of the k-th read; every third one is
\* empty (a delta without content).
StreamScript == << <<"a">>, <<"b">>, <<>>, <<"c">>, <<"d">>, <<>> >>

FragmentAt(k) == StreamScript[((k - 1) % Len(StreamScript)) + 1]

\* Lines 164-173: the next read of the provider's stream: a fragment (which
\* may be empty and is then skipped), the end of the stream, or a failure.
StreamNext ==
  /\ IsStream
  /\ pc = "stream"
  /\ \/ /\ streamPos < MaxFragments
        /\ LET chunkContent == FragmentAt(streamPos + 1) IN
             IF chunkContent # <<>>
             THEN /\ fullResponse' = fullResponse \o chunkContent
                  /\ events' = Append(events, ChunkEvent(chunkContent))
             ELSE UNCHANGED << fullResponse, events >>
        /\ streamPos' = streamPos + 1
        /\ UNCHANGED << pc, retryCount, waits, ended >>
     \/ /\ pc' = "persist"
        /\ UNCHANGED << fullResponse, events, streamPos, retryCount, waits, ended >>
     \/ /\ \E msg \in ProviderErrors : AttemptFailed(msg)
        /\ UNCHANGED streamPos
  /\ UNCHANGED << data, result >>
  /\ UNCHANGED << req, user, conversation, userMessage, assistantMessage,
                  conversations, messages, clock, status, body, calls, words, idx,
                  openaiMessages, thrown >>
  /\ UNCHANGED << closed, returned >>
  /\ UNCHANGED clientVars
  /\ UNCHANGED utilVars

\* Lines 193-200: the assistant message is written with the accumulated text.
PersistAssistant ==
  /\ IsStream
  /\ pc = "persist"
  /\ \E storeFails \in BOOLEAN :
       IF storeFails
       THEN /\ Caught("StoreError")
            /\ UNCHANGED << assistantMessage, messages, clock >>
       ELSE /\ messages' = CreateMessage(fullResponse, "assistant", conversation, user)
            /\ assistantMessage' = NextMessageId
            /\ clock' = clock + 1
            /\ pc' = "touch"
            /\ UNCHANGED << status, events, ended, thrown >>
  /\ UNCHANGED << data, result >>
  /\ UNCHANGED << req, user, conversation, userMessage, conversations, body,
                  fullResponse, retryCount, calls, waits, words, idx, streamPos,
                  openaiMessages >>
  /\ UNCHANGED << closed, returned >>
  /\ UNCHANGED clientVars
  /\ UNCHANGED utilVars

\* Mutant of TouchedConversations: the update of updatedAt is left out.
ConversationsUntouched(id) == conversations

\* prisma.conversation.update({ where: { id }, data: { updatedAt: new Date() } })
TouchedConversations(id) ==
  [conversations EXCEPT ![id].updatedAt = clock + 1]

\* Lines 202-213: updatedAt is refreshed, complete is written, res.end().
TouchAndComplete ==
  /\ IsStream
  /\ pc = "touch"
  /\ \E storeFails \in BOOLEAN :
       IF storeFails
       THEN /\ Caught("StoreError")
            /\ UNCHANGED << conversations, clock >>
       ELSE /\ conversations' = TouchedConversations(conversation)
            /\ clock' = clock + 1
            /\ events' = Append(events, CompleteEvent(assistantMessage))
            /\ ended' = TRUE
            /\ pc' = "done"
            /\ UNCHANGED << status, thrown >>
  /\ UNCHANGED << data, result >>
  /\ UNCHANGED << req, user, conversation, userMessage, assistantMessage, messages,
                  body, fullResponse, retryCount, calls, waits, words, idx,
                  streamPos, openaiMessages >>
  /\ UNCHANGED << closed, returned >>
  /\ UNCHANGED clientVars
  /\ UNCHANGED utilVars

\* The peer closes the connection while the handler is running.  The stream
\* handlers register no 'close' listener and test no flag: nothing but the
\* connection changes.
PeerCloses ==
  /\ IsStream
  /\ pc \notin {"begin", "done"}
  /\ ~closed
  /\ closed' = TRUE
  /\ UNCHANGED << req, pc, user, status, body, data, result, ended, thrown, returned >>
  /\ UNCHANGED << conversations, messages, clock >>
  /\ UNCHANGED << conversation, userMessage, assistantMessage, events, fullResponse,
                  retryCount, calls, waits, words, idx, streamPos, openaiMessages >>
  /\ UNCHANGED clientVars
  /\ UNCHANGED utilVars

(* ------------------------ conversation routes -------------------------- *)

storeVars == << conversations, messages, clock >>

streamVars == << conversation, userMessage, assistantMessage, events, fullResponse,
                 retryCount, calls, waits, words, idx, streamPos, openaiMessages >>

\* router.use(authenticateToken): the user of the credential, "" when the
\* middleware answers 401 itself.
AuthenticateToken(credential) ==
  IF UserExists(JwtVerify(credential)) THEN JwtVerify(credential) ELSE ""

\* res.json(rows) / res.send(text)
Send(rows) ==
  /\ status' = 200
  /\ data' = rows
  /\ ended' = TRUE
  /\ pc' = "done"

\* validateConversationOwnership(conversationId, userId): the id of the
\* caller's conversation, 0 when it throws 'Conversation not found'.
ValidateConversationOwnership(conversationId, userId) ==
  FindFirstConversation(conversationId, userId)

\* GET /:conversationId (messages.js, lines 441-466)
ListMessages ==
  /\ req.op = "GET /:conversationId"
  /\ pc = "begin"
  /\ LET u == AuthenticateToken(req.credential) IN
     \E storeFails \in BOOLEAN :
       /\ user' = u
       /\ IF u = ""
          THEN Respond(401, "Unauthorized") /\ UNCHANGED data
          ELSE IF storeFails
          THEN Respond(500, "Internal server error") /\ UNCHANGED data
          ELSE IF FindFirstConversation(req.conversationId, u) = 0
          THEN Respond(404, "Conversation not found") /\ UNCHANGED data
          ELSE /\ Send([NoData EXCEPT !.messages = FindManyMessages(req.conversationId)])
               /\ UNCHANGED body
  /\ UNCHANGED << req, result, thrown >>
  /\ UNCHANGED storeVars
  /\ UNCHANGED streamVars
  /\ UNCHANGED << closed, returned >>
  /\ UNCHANGED clientVars
  /\ UNCHANGED utilVars

\* PUT /:id with updateConversationTitle (lines 268-276)
UpdateConversation ==
  /\ req.op = "PUT /:id"
  /\ pc = "begin"
  /\ LET u == AuthenticateToken(req.credential) IN
     \E storeFails \in BOOLEAN :
       /\ user' = u
       /\ IF u = ""
          THEN Respond(401, "Unauthorized") /\ UNCHANGED << data, conversations >>
          ELSE IF storeFails
          THEN Respond(500, "Internal server error") /\ UNCHANGED << data, conversations >>
          ELSE IF ValidateConversationOwnership(req.conversationId, u) = 0
          THEN Respond(404, "Conversation not found") /\ UNCHANGED << data, conversations >>
          ELSE /\ conversations' =
                    [conversations EXCEPT ![req.conversationId].title = req.title]
               /\ Send([NoData EXCEPT !.conversation = req.conversationId,
                                      !.title = req.title])
               /\ UNCHANGED body
  /\ UNCHANGED << req, result, thrown, messages, clock >>
  /\ UNCHANGED streamVars
  /\ UNCHANGED << closed, returned >>
  /\ UNCHANGED clientVars
  /\ UNCHANGED utilVars

\* prisma.conversation.delete({ where: { id } }); its messages go with it.
DeletedConversations(id) ==
  [c \in DOMAIN conversations \ {id} |-> conversations[c]]

DeletedMessages(id) == SelectSeq(messages, LAMBDA m : m.conversationId # id)

\* DELETE /:id with deleteConversation (lines 284-291)
DeleteConversation ==
  /\ req.op = "DELETE /:id"
  /\ pc = "begin"
  /\ LET u == AuthenticateToken(req.credential) IN
     \E storeFails \in BOOLEAN :
       /\ user' = u
       /\ IF u = ""
          THEN Respond(401, "Unauthorized") /\ UNCHANGED << conversations, messages >>
          ELSE IF storeFails
          THEN Respond(500, "Internal server error")
               /\ UNCHANGED << conversations, messages >>
          ELSE IF ValidateConversationOwnership(req.conversationId, u) = 0
          THEN Respond(404, "Conversation not found")
               /\ UNCHANGED << conversations, messages >>
          ELSE /\ conversations' = DeletedConversations(req.conversationId)
               /\ messages' = DeletedMessages(req.conversationId)
               /\ Respond(200, "Conversation deleted successfully")
  /\ UNCHANGED << req, data, result, thrown, clock >>
  /\ UNCHANGED streamVars
  /\ UNCHANGED << closed, returned >>
  /\ UNCHANGED clientVars
  /\ UNCHANGED utilVars

\* supportedFormats.includes(format.toLowerCase())
SupportedFormat(format) == format \in {"json", "txt", "md", "markdown"}

\* GET /:id/export with getConversationWithMessages (lines 299-315); the
\* rendering of the rows into the chosen format is not part of this model.
ExportConversation ==
  /\ req.op = "GET /:id/export"
  /\ pc = "begin"
  /\ LET u == AuthenticateToken(req.credential) IN
     \E storeFails \in BOOLEAN :
       /\ user' = u
       /\ IF u = ""
          THEN Respond(401, "Unauthorized") /\ UNCHANGED data
          ELSE IF ~SupportedFormat(req.format)
          THEN Respond(400, "Invalid export format") /\ UNCHANGED data
          ELSE IF storeFails
          THEN Respond(500, "Internal server error") /\ UNCHANGED data
          ELSE IF ValidateConversationOwnership(req.conversationId, u) = 0
          THEN Respond(404, "Conversation not found") /\ UNCHANGED data
          ELSE /\ Send([conversation |-> req.conversationId,
                        title |-> conversations[req.conversationId].title,
                        messages |-> FindManyMessages(req.conversationId)])
               /\ UNCHANGED body
  /\ UNCHANGED << req, result, thrown >>
  /\ UNCHANGED storeVars
  /\ UNCHANGED streamVars
  /\ UNCHANGED << closed, returned >>
  /\ UNCHANGED clientVars
  /\ UNCHANGED utilVars

(* ----------------------------- utilities ------------------------------- *)

\* generateConversationTitle(content, maxLength = 50)
GenerateConversationTitle(r) ==
  IF ContentBlank(r) THEN NewConversationTitle
  ELSE LET trimmed == Trim(r.content) IN
       IF Len(trimmed) > maxLength THEN Substring0(trimmed, maxLength) \o Dots
       ELSE trimmed

\* findOrCreateConversation(conversationId, userId, content), userId = "A"
FindOrCreateConversation ==
  /\ req.op = "findOrCreateConversation"
  /\ pc = "begin"
  /\ user' = JwtVerify(req.credential)
  /\ \E storeFails \in BOOLEAN :
       IF storeFails
       THEN /\ result' = "threw"
            /\ thrown' = "StoreError"
            /\ UNCHANGED << conversation, conversations, clock >>
       ELSE IF req.conversationId # 0
       THEN IF FindFirstConversation(req.conversationId, user') = 0
            THEN /\ result' = "threw"
                 /\ thrown' = "Conversation not found"
                 /\ UNCHANGED << conversation, conversations, clock >>
            ELSE /\ result' = "returned"
                 /\ conversation' = FindFirstConversation(req.conversationId, user')
                 /\ UNCHANGED << thrown, conversations, clock >>
       ELSE /\ conversations' = CreateConversation(user', GenerateConversationTitle(req))
            /\ conversation' = NextConversationId
            /\ clock' = clock + 1
            /\ result' = "returned"
            /\ UNCHANGED thrown
  /\ pc' = "done"
  /\ UNCHANGED << req, status, body, data, ended, messages, userMessage,
                  assistantMessage, events, fullResponse, retryCount, calls, waits,
                  words, idx, streamPos, openaiMessages >>
  /\ UNCHANGED << closed, returned >>
  /\ UNCHANGED clientVars
  /\ UNCHANGED utilVars

\* validateMessageContent(content): the error it reports, "" when valid.
ValidateMessageContent(r) ==
  IF ~r.contentGiven \/ Len(r.content) = 0 THEN "Message content is required"
  ELSE IF Len(Trim(r.content)) = 0 THEN "Message content cannot be empty"
  ELSE IF Len(r.content) > MaxContentLength
       THEN "Message content is too long (maximum 10,000 characters)"
  ELSE ""

ValidateMessageContentCall ==
  /\ req.op = "validateMessageContent"
  /\ pc = "begin"
  /\ body' = ValidateMessageContent(req)
  /\ result' = "returned"
  /\ pc' = "done"
  /\ UNCHANGED << req, user, status, data, ended, thrown >>
  /\ UNCHANGED storeVars
  /\ UNCHANGED streamVars
  /\ UNCHANGED << closed, returned >>
  /\ UNCHANGED clientVars
  /\ UNCHANGED utilVars

\* callOpenAIWithRetry(openaiCall, maxRetries = 3): one attempt, and what
\* follows its failure.
CallOpenAIWithRetry ==
  /\ req.op = "callOpenAIWithRetry"
  /\ pc \in {"begin", "retry"}
  /\ retryCount < maxRetries
  /\ calls' = calls + 1
  /\ \/ /\ result' = "returned"
        /\ pc' = "done"
        /\ UNCHANGED << retryCount, waits, thrown >>
     \/ \E msg \in ProviderErrors :
          /\ retryCount' = retryCount + 1
          /\ IF retryCount + 1 = maxRetries
             THEN /\ result' = "threw"
                  /\ thrown' = msg
                  /\ pc' = "done"
                  /\ UNCHANGED waits
             ELSE /\ waits' = Append(waits, Backoff(retryCount + 1))
                  /\ pc' = "retry"
                  /\ UNCHANGED << result, thrown >>
  /\ UNCHANGED << req, user, status, body, data, ended, conversation, userMessage,
                  assistantMessage, events, fullResponse, words, idx, streamPos,
                  openaiMessages >>
  /\ UNCHANGED storeVars
  /\ UNCHANGED << closed, returned >>
  /\ UNCHANGED clientVars
  /\ UNCHANGED utilVars

\* handleOpenAIError(openaiError): the message of the error object it returns.
HandleOpenAIErrorCall ==
  /\ req.op = "handleOpenAIError"
  /\ pc = "begin"
  /\ returned' = HandleOpenAIError(req.failure)
  /\ result' = "returned"
  /\ pc' = "done"
  /\ UNCHANGED << req, user, status, body, data, ended, thrown, closed >>
  /\ UNCHANGED storeVars
  /\ UNCHANGED streamVars
  /\ UNCHANGED clientVars
  /\ UNCHANGED utilVars

\* getErrorMessage(error)
GetErrorMessageCall ==
  /\ req.op = "getErrorMessage"
  /\ pc = "begin"
  /\ returned' = GetErrorMessage(req.failure)
  /\ result' = "returned"
  /\ pc' = "done"
  /\ UNCHANGED << req, user, status, body, data, ended, thrown, closed >>
  /\ UNCHANGED storeVars
  /\ UNCHANGED streamVars
  /\ UNCHANGED clientVars
  /\ UNCHANGED utilVars

Next ==
  \/ Validate
  \/ Authenticate
  \/ ResolveConversation
  \/ PersistUserMessage
  \/ FetchHistory
  \/ ProviderCall
  \/ SimulateChunk
  \/ StreamNext
  \/ PersistAssistant
  \/ TouchAndComplete
  \/ PeerCloses
  \/ ListMessages
  \/ UpdateConversation
  \/ DeleteConversation
  \/ ExportConversation
  \/ FindOrCreateConversation
  \/ ValidateMessageContentCall
  \/ CallOpenAIWithRetry
  \/ HandleOpenAIErrorCall
  \/ GetErrorMessageCall

Spec == Init /\ [][Next]_vars

\* The steps of the stream handlers themselves.
HandlerStep ==
  \/ Validate
  \/ Authenticate
  \/ ResolveConversation
  \/ PersistUserMessage
  \/ FetchHistory
  \/ ProviderCall
  \/ SimulateChunk
  \/ StreamNext
  \/ PersistAssistant
  \/ TouchAndComplete

\* The event loop runs every continuation that is ready.
FairSpec == Spec /\ WF_vars(HandlerStep)

(* ------------------------- client: useMessages ------------------------ *)

serverVars == << req, pc, user, conversation, userMessage, assistantMessage,
                 conversations, messages, clock, status, body, data, result,
                 events, ended, fullResponse, retryCount, calls, waits, words, idx,
                 streamPos, openaiMessages, thrown, closed, returned >>

\* `temp-${Date.now()}`
TempId(t) == <<"temp", t>>

\* Mutant of StreamingId: the placeholder of the answer takes the prefix of
\* the user placeholder.
StreamingIdWithTempPrefix(t) == <<"temp", t>>

\* `streaming-${Date.now()}`
StreamingId(t) == <<"streaming", t>>

\* `error-${Date.now()}`
ErrorId(t) == <<"error", t>>

\* The identity the store gives to its n-th message.
ServerId(n) == <<"server", n>>

LocalMessage(id, role, content, streaming) ==
  [id |-> id, role |-> role, content |-> content, streaming |-> streaming]

\* response.data of loadMessages: the stored messages of the conversation shown.
LoadedMessages ==
  << LocalMessage(ServerId(1), "user", <<"H","i">>, FALSE),
     LocalMessage(ServerId(2), "assistant", <<"y","o">>, FALSE) >>

\* data.error of an error event: none, a provider text, the catch's text.
EventErrors == { NoFailure, <<"tokens per min">> }

\* Text typed into the input box.
InputMessages == { <<>>, <<" ","y","o"," ">> }

\* Identities of the messages the server writes for the current send.
SentUserId == ServerId(2 * submits + 1)

SentAssistantId == ServerId(2 * submits + 2)

\* handleStreamError: errorContent for errorInfo
StreamErrorContent(errorInfo) ==
  IF errorInfo # <<>>
     /\ (Includes(errorInfo, "rate_limit_exceeded") \/ Includes(errorInfo, "Request too large"))
  THEN FileTooLargeMessage
  ELSE IF errorInfo # <<>> /\ Includes(errorInfo, "tokens per min") THEN HighDemandMessage
  ELSE ClientGenericMessage

\* setMessages(prev => [...prev, tempUserMessage]); then [...prev, streamingMessage]
Submitted(prev, content, t1, t2) ==
  prev \o << LocalMessage(TempId(t1), "user", content, FALSE),
             LocalMessage(StreamingId(t2), "assistant", <<>>, TRUE) >>

\* Array.prototype.slice(0, -1)
DropLast(l) == SubSeq(l, 1, Len(l) - 1)

\* case 'start': filter out the provisional user message, drop the last
\* element, append the confirmed user message and the placeholder.
OnStart(prev, sent, streamingMsg) ==
  DropLast(SelectSeq(prev, LAMBDA m : m.id # tempUserMessage)) \o << sent, streamingMsg >>

\* Mutant of OnChunk: the chunk's content is put before the content so far.
OnChunkPrepending(prev, content) ==
  [i \in 1..Len(prev) |->
     IF prev[i].id = streamingMessageId
     THEN [prev[i] EXCEPT !.content = content \o prev[i].content, !.streaming = TRUE]
     ELSE prev[i]]

\* case 'chunk'
OnChunk(prev, content) ==
  [i \in 1..Len(prev) |->
     IF prev[i].id = streamingMessageId
     THEN [prev[i] EXCEPT !.content = prev[i].content \o content, !.streaming = TRUE]
     ELSE prev[i]]

\* Mutant of OnComplete: the placeholder is taken out and the confirmed
\* message put at the end.
OnCompleteAtEnd(prev, assistant) ==
  SelectSeq(prev, LAMBDA m : m.id # streamingMessageId) \o << assistant >>

\* case 'complete'
OnComplete(prev, assistant) ==
  [i \in 1..Len(prev) |-> IF prev[i].id = streamingMessageId THEN assistant ELSE prev[i]]

\* case 'error' and handleStreamError: the placeholder is removed and an
\* error message is appended.
WithErrorMessage(prev, placeholder, content, t) ==
  SelectSeq(prev, LAMBDA m : m.id # placeholder)
    \o << LocalMessage(ErrorId(t), "assistant", content, FALSE) >>

\* catch of sendMessage: both placeholders are removed.
OnSetupError(prev, t) ==
  SelectSeq(prev, LAMBDA m : m.id # tempUserMessage /\ m.id # streamingMessageId)
    \o << LocalMessage(ErrorId(t), "assistant", ClientGenericMessage, FALSE) >>

\* The server side while the client is modelled: no request is being served.
ServerIdle ==
  /\ req = [op |-> "none"]
  /\ pc = "done"
  /\ user = ""
  /\ conversation = 0
  /\ userMessage = 0
  /\ assistantMessage = 0
  /\ conversations = SeedConversations
  /\ messages = SeedMessages
  /\ clock = 2
  /\ status = 0
  /\ body = ""
  /\ data = NoData
  /\ result = ""
  /\ events = <<>>
  /\ ended = FALSE
  /\ fullResponse = <<>>
  /\ retryCount = 0
  /\ calls = 0
  /\ waits = <<>>
  /\ words = <<>>
  /\ idx = 0
  /\ streamPos = 0
  /\ openaiMessages = <<>>
  /\ thrown = ""
  /\ closed = FALSE
  /\ returned = NoText

ClientInit ==
  /\ ServerIdle
  /\ UtilIdle
  /\ \/ currentConversation = 0 /\ clientMessages = <<>>
     \/ currentConversation = 1 /\ clientMessages = LoadedMessages
  /\ clientConversations = << 1 >>
  /\ closure = [currentConversation |-> 0, conversations |-> <<>>]
  /\ pendingLoad = 0
  /\ loading = FALSE
  /\ now = 1
  /\ tempUserMessage = <<"none">>
  /\ streamingMessageId = <<"none">>
  /\ transport = "none"
  /\ timers = {}
  /\ emitted = <<>>
  /\ submits = 0

\* Date.now() read at a step.
Times == {now}

\* Date.now() read when the form is submitted: a submit follows the reads of
\* the send before it by a network answer or a timer, and a click.
SubmitTimes == {t \in {now + 1} : t <= MaxNow}

\* Date.now() read again after a read of t: the same millisecond or the next.
LaterTimes(t) == {u \in {t, t + 1} : u <= MaxNow}

\* if ((!inputMessage.trim() && !attachedFile) || loading) return;
SubmitIgnored(inputMessage, attachedFile) ==
  (Trim(inputMessage) = <<>> /\ ~attachedFile) \/ loading

\* sendMessage (lines 34-63, 65-82, 140-161) up to its first await: the
\* guard, the two placeholders, and the opening of the transport.  One send
\* in flight is followed: a send made while the stream of the send before it
\* is still open (a stale timer has reset loading) is left out.
SendMessage ==
  /\ submits < MaxSubmits
  /\ transport \in {"none", "closed"}
  /\ \E inputMessage \in InputMessages, attachedFile \in BOOLEAN :
     \E t1 \in SubmitTimes : \E t2 \in LaterTimes(t1) :
       /\ ~SubmitIgnored(inputMessage, attachedFile)
       /\ loading' = TRUE
       /\ tempUserMessage' = TempId(t1)
       /\ streamingMessageId' = StreamingId(t2)
       /\ clientMessages' = Submitted(clientMessages, Trim(inputMessage), t1, t2)
       /\ now' = t2
       /\ transport' = IF attachedFile THEN "fetching" ELSE "eventsource"
  /\ emitted' = <<>>
  /\ submits' = submits + 1
  /\ closure' = [currentConversation |-> currentConversation,
                 conversations |-> clientConversations]
  /\ UNCHANGED << timers, currentConversation, clientConversations, pendingLoad >>
  /\ UNCHANGED serverVars
  /\ UNCHANGED utilVars

\* Lines 67-138: fetch answers.  A response that is not ok (or a rejected
\* fetch) is thrown to the catch of sendMessage (lines 276-289); otherwise
\* processStream starts and arms its timer.
FetchResponds ==
  /\ transport = "fetching"
  /\ \E ok \in BOOLEAN : \E t \in Times :
       IF ok
       THEN /\ transport' = "fetch"
            /\ timers' = timers \cup {streamingMessageId}
            /\ UNCHANGED << clientMessages, loading, now >>
       ELSE /\ clientMessages' = OnSetupError(clientMessages, t)
            /\ now' = t
            /\ loading' = FALSE
            /\ transport' = "closed"
            /\ UNCHANGED timers
  /\ UNCHANGED << tempUserMessage, streamingMessageId, emitted, submits >>
  /\ UNCHANGED navVars
  /\ UNCHANGED serverVars
  /\ UNCHANGED utilVars

Open == transport \in {"eventsource", "fetch"}

\* The content the server holds for the local message id: the text sent for
\* the provisional user message, the chunks sent so far for the placeholder.
ContentOf(id) ==
  IF \E i \in 1..Len(clientMessages) : clientMessages[i].id = id
  THEN clientMessages[CHOOSE i \in 1..Len(clientMessages) : clientMessages[i].id = id].content
  ELSE <<>>

Started == emitted # <<>> /\ Head(emitted) = "start"

Terminated == \E i \in 1..Len(emitted) : emitted[i] \in {"complete", "error"}

\* An event is in time when no terminal event came before it, late when it
\* is the first event after a terminal one.
InTime(late) ==
  IF late
  THEN Terminated /\ Last(emitted) \in {"complete", "error"}
         /\ \A i \in 1..(Len(emitted) - 1) : emitted[i] \notin {"complete", "error"}
  ELSE ~Terminated

\* eventSource.close() of the terminal cases; the reader of processStream
\* goes on reading until done.
AfterTerminal == IF transport = "eventsource" THEN "closed" ELSE transport

\* data.conversation of the start event: the conversation the request named
\* (params.conversationId is the closure's currentConversation?.id), or the
\* one the server created for a request that named none.
SentConversation ==
  IF closure.currentConversation = 0 THEN submits + 1 ELSE closure.currentConversation

\* handleEventData, case 'start' (lines 169-183), with handleConversationUpdate
\* of the same render.
HandleStart ==
  /\ Open /\ emitted = <<>>
  /\ IF closure.currentConversation = 0 \/ closure.currentConversation # SentConversation
     THEN /\ currentConversation' = SentConversation
          /\ clientConversations' = << SentConversation >> \o closure.conversations
     ELSE UNCHANGED << currentConversation, clientConversations >>
  /\ UNCHANGED << closure, pendingLoad >>
  /\ clientMessages' =
       OnStart(clientMessages,
               LocalMessage(SentUserId, "user", ContentOf(tempUserMessage), FALSE),
               LocalMessage(streamingMessageId, "assistant", <<>>, TRUE))
  /\ emitted' = Append(emitted, "start")
  /\ UNCHANGED << loading, now, tempUserMessage, streamingMessageId, transport,
                  timers, submits >>
  /\ UNCHANGED serverVars
  /\ UNCHANGED utilVars

\* handleEventData, case 'chunk' (lines 185-192)
OnChunkEvent(late) ==
  /\ Open /\ Started /\ InTime(late)
  /\ Cardinality({i \in 1..Len(emitted) : emitted[i] = "chunk"}) < MaxChunks
  /\ clientMessages' = OnChunk(clientMessages, FragmentAt(Len(emitted)))
  /\ emitted' = Append(emitted, "chunk")
  /\ UNCHANGED << loading, now, tempUserMessage, streamingMessageId, transport,
                  timers, submits >>
  /\ UNCHANGED navVars
  /\ UNCHANGED serverVars
  /\ UNCHANGED utilVars

\* handleEventData, case 'complete' (lines 194-206), and clearTimeout
\* (lines 126-128).
OnCompleteEvent(late) ==
  /\ Open /\ Started /\ InTime(late)
  /\ clientMessages' =
       OnComplete(clientMessages,
                  LocalMessage(SentAssistantId, "assistant",
                               ContentOf(streamingMessageId), FALSE))
  /\ emitted' = Append(emitted, "complete")
  /\ loading' = FALSE
  /\ transport' = AfterTerminal
  /\ timers' = timers \ {streamingMessageId}
  /\ UNCHANGED << now, tempUserMessage, streamingMessageId, submits >>
  /\ UNCHANGED navVars
  /\ UNCHANGED serverVars
  /\ UNCHANGED utilVars

\* handleEventData, case 'error' (lines 208-236); the server may send it
\* with or without a start before it.
OnErrorEvent(late) ==
  /\ Open /\ InTime(late)
  /\ \E error \in EventErrors : \E t \in Times :
       /\ clientMessages' =
            WithErrorMessage(clientMessages, streamingMessageId, ErrorContent(error), t)
       /\ now' = t
  /\ emitted' = Append(emitted, "error")
  /\ loading' = FALSE
  /\ transport' = AfterTerminal
  /\ timers' = timers \ {streamingMessageId}
  /\ UNCHANGED << tempUserMessage, streamingMessageId, submits >>
  /\ UNCHANGED navVars
  /\ UNCHANGED serverVars
  /\ UNCHANGED utilVars

\* eventSource.onerror (lines 156-160) and the catch of processStream
\* (lines 132-135): handleStreamError (lines 248-273).  The catch of
\* processStream leaves the timer armed.
StreamFails(late) ==
  /\ Open /\ InTime(late)
  /\ \E errorInfo \in {<<>>, <<"Failed to fetch">>} : \E t \in Times :
       /\ (transport = "eventsource") <=> (errorInfo = <<>>)
       /\ clientMessages' =
            WithErrorMessage(clientMessages, streamingMessageId,
                             StreamErrorContent(errorInfo), t)
       /\ now' = t
  /\ loading' = FALSE
  /\ transport' = "closed"
  /\ UNCHANGED << tempUserMessage, streamingMessageId, timers, emitted, submits >>
  /\ UNCHANGED navVars
  /\ UNCHANGED serverVars
  /\ UNCHANGED utilVars

\* The events of a stream as the server orders them.
HandleChunk == OnChunkEvent(FALSE)

HandleComplete == OnCompleteEvent(FALSE)

HandleError == OnErrorEvent(FALSE)

ConnectionError == StreamFails(FALSE)

\* An event delivered after the terminal event of its request (the reader of
\* processStream is still reading; nothing in handleEventData tells).
LateChunk == OnChunkEvent(TRUE)

LateComplete == OnCompleteEvent(TRUE)

LateError == OnErrorEvent(TRUE)

LateConnectionError == StreamFails(TRUE)

\* A 5-minute timer of processStream fires (lines 103-106): reader.cancel()
\* and handleStreamError, in the closure of the send that armed it.
TimeoutFires ==
  /\ \E placeholder \in timers : \E t \in Times :
       /\ clientMessages' =
            WithErrorMessage(clientMessages, placeholder,
              StreamErrorContent(<<"Request timeout. The file may be too large or the server is experiencing high load.">>), t)
       /\ now' = t
       /\ timers' = timers \ {placeholder}
       /\ transport' = IF placeholder = streamingMessageId /\ transport = "fetch"
                       THEN "closed" ELSE transport
  /\ loading' = FALSE
  /\ UNCHANGED << tempUserMessage, streamingMessageId, emitted, submits >>
  /\ UNCHANGED navVars
  /\ UNCHANGED serverVars
  /\ UNCHANGED utilVars

\* processStream, lines 109-113: reader.read() gives done (the server ended
\* the response, or the reader was cancelled): the timer is cleared and the
\* loop left; nothing else is done.
StreamDone ==
  /\ transport = "fetch"
  /\ transport' = "closed"
  /\ timers' = timers \ {streamingMessageId}
  /\ UNCHANGED << clientMessages, loading, now, tempUserMessage, streamingMessageId,
                  emitted, submits >>
  /\ UNCHANGED navVars
  /\ UNCHANGED serverVars
  /\ UNCHANGED utilVars

\* Sidebar, onConversationSelect = setCurrentConversation, while a send is in
\* flight: the effect of useMessages (lines 292-296) loads nothing while
\* isStreaming.
SelectConversation ==
  /\ loading
  /\ \E c \in Range(clientConversations) :
       /\ c # currentConversation
       /\ currentConversation' = c
  /\ UNCHANGED << clientMessages, loading, now, tempUserMessage, streamingMessageId,
                  transport, timers, emitted, submits, clientConversations, closure,
                  pendingLoad >>
  /\ UNCHANGED serverVars
  /\ UNCHANGED utilVars

\* Sidebar, onNewChat = startNewConversation, while a send is in flight:
\* setCurrentConversation(null), and the effect of useMessages (lines
\* 298-302) empties the list.
StartNewConversation ==
  /\ loading
  /\ currentConversation # 0
  /\ currentConversation' = 0
  /\ clientMessages' = <<>>
  /\ UNCHANGED << loading, now, tempUserMessage, streamingMessageId,
                  transport, timers, emitted, submits, clientConversations, closure,
                  pendingLoad >>
  /\ UNCHANGED serverVars
  /\ UNCHANGED utilVars

ClientNext ==
  \/ SendMessage
  \/ FetchResponds
  \/ HandleStart
  \/ HandleChunk
  \/ HandleComplete
  \/ HandleError
  \/ ConnectionError
  \/ TimeoutFires
  \/ StreamDone

ClientSpec == ClientInit /\ [][ClientNext]_vars

\* What the channel of a send does in the end: the fetch settles, a terminal
\* event is delivered, the transport fails, or the server closes the stream.
ChannelStep ==
  \/ FetchResponds
  \/ HandleComplete
  \/ HandleError
  \/ ConnectionError
  \/ StreamDone

ClientFairSpec == ClientSpec /\ WF_vars(ChannelStep)

\* The hook with the sidebar in use while a send is in flight.
NavNext ==
  \/ ClientNext
  \/ SelectConversation
  \/ StartNewConversation

NavSpec == ClientInit /\ [][NavNext]_vars

\* The hook with events that arrive after the terminal event of a request.
LateNext ==
  \/ ClientNext
  \/ LateChunk
  \/ LateComplete
  \/ LateError
  \/ LateConnectionError

LateSpec == ClientInit /\ [][LateNext]_vars

(* ------------------------ client: loadMessages ------------------------ *)

\* Sidebar, onConversationSelect = setCurrentConversation, while no send is
\* in flight: the effect of useMessages (lines 292-296) calls loadMessages,
\* which awaits axios.get.  The conversation selected is the stored one,
\* before anything was sent in this session, so that its stored messages are
\* LoadedMessages.
ConversationSelected ==
  /\ ~loading
  /\ submits = 0
  /\ pendingLoad = 0
  /\ \E c \in Range(clientConversations) :
       /\ c # currentConversation
       /\ currentConversation' = c
       /\ pendingLoad' = c
  /\ UNCHANGED << clientMessages, loading, now, tempUserMessage, streamingMessageId,
                  transport, timers, emitted, submits, clientConversations, closure >>
  /\ UNCHANGED serverVars
  /\ UNCHANGED utilVars

\* loadMessages, lines 17-27: the request is answered, whatever the hook is
\* doing by then: setMessages(response.data), or the catch, which leaves the
\* list alone.
LoadMessagesResolves ==
  /\ pendingLoad # 0
  /\ \E ok \in BOOLEAN :
       clientMessages' = IF ok THEN LoadedMessages ELSE clientMessages
  /\ pendingLoad' = 0
  /\ UNCHANGED << loading, now, tempUserMessage, streamingMessageId, transport,
                  timers, emitted, submits, currentConversation,
                  clientConversations, closure >>
  /\ UNCHANGED serverVars
  /\ UNCHANGED utilVars

LoadNext ==
  \/ ClientNext
  \/ ConversationSelected
  \/ LoadMessagesResolves

LoadSpec == ClientInit /\ [][LoadNext]_vars

(* ---------------- client: lines that are no known event --------------- *)

\* A line of the stream: its prefix and the type of the record after it.
\* sendHeartbeat writes ': heartbeat'; a record of a type the client does
\* not know is written like every event, 'data: {"type": ...}'.
HeartbeatLine == << ": ", "heartbeat" >>

UnknownLine == << "data: ", "progress" >>

\* Mutant of IsDataLine: every line is taken for a record.
IsDataLineAlways(line) == TRUE

\* line.startsWith('data: ')
IsDataLine(line) == line[1] = "data: "

\* One such line is sent, in the first stream of the session.
Ignored == {i \in 1..Len(emitted) : emitted[i] \in {"heartbeat", "other"}}

\* The keep-alive line arrives.  EventSource drops comment lines itself;
\* processStream (lines 120-130) skips a line that is no data line, and
\* would hand any other line to JSON.parse, which throws on this one: the
\* catch (lines 132-135) then calls handleStreamError.
KeepAliveArrives ==
  /\ Open /\ Started /\ InTime(FALSE)
  /\ Ignored = {} /\ submits = 1
  /\ IF transport = "fetch" /\ IsDataLine(HeartbeatLine)
     THEN StreamFails(FALSE)
     ELSE /\ emitted' = Append(emitted, "heartbeat")
          /\ UNCHANGED << clientMessages, loading, now, tempUserMessage,
                          streamingMessageId, transport, timers, submits >>
          /\ UNCHANGED navVars
          /\ UNCHANGED serverVars
          /\ UNCHANGED utilVars

\* handleEventData, default (lines 238-240): console.warn and nothing else;
\* the type is neither complete nor error, so no timer is cleared.
UnknownRecordArrives ==
  /\ Open /\ Started /\ InTime(FALSE)
  /\ Ignored = {} /\ submits = 1
  /\ IsDataLine(UnknownLine)
  /\ emitted' = Append(emitted, "other")
  /\ UNCHANGED << clientMessages, loading, now, tempUserMessage,
                  streamingMessageId, transport, timers, submits >>
  /\ UNCHANGED navVars
  /\ UNCHANGED serverVars
  /\ UNCHANGED utilVars

IgnoreNext ==
  \/ ClientNext
  \/ KeepAliveArrives
  \/ UnknownRecordArrives

IgnoreSpec == ClientInit /\ [][IgnoreNext]_vars

(* ------------------ streamingUtils: createStreamingHandler ------------ *)

\* res.write at the present tick
Write(kind) == Append(written, [kind |-> kind, at |-> time])

WrittenKinds == {written[i].kind : i \in 1..Len(written)}

\* createStreamingHandler up to its await (lines 198-216): the headers, the
\* interval, the listeners for a disconnect.
StreamingHandlerBegins ==
  /\ handlerState = "none"
  /\ handlerState' = "running"
  /\ heartbeatInterval' = "armed"
  /\ due' = time + IntervalTicks
  /\ UNCHANGED << written, resEnded, time, peerGone >>
  /\ UNCHANGED << serverVars, clientVars, limiterVars >>

\* streamHandler(res), the caller's function, sends an event (sendStartEvent,
\* sendChunkEvent, sendCompleteEvent: lines 28-68): a start, then chunks,
\* then a complete.
StreamHandlerSends ==
  /\ handlerState = "running"
  /\ "complete" \notin WrittenKinds
  /\ \E kind \in {"start", "chunk", "complete"} :
       /\ (kind = "start") <=> ("start" \notin WrittenKinds)
       /\ kind = "chunk" =>
            Cardinality({i \in 1..Len(written) : written[i].kind = "chunk"}) < MaxChunks
       /\ written' = Write(kind)
  /\ UNCHANGED << handlerState, heartbeatInterval, resEnded, time, due, peerGone >>
  /\ UNCHANGED << serverVars, clientVars, limiterVars >>

\* streamHandler(res) resolves; finally: closeStream (lines 131-136, 219-221).
StreamHandlerReturns ==
  /\ handlerState = "running"
  /\ handlerState' = "finished"
  /\ heartbeatInterval' = "cleared"
  /\ resEnded' = resEnded + 1
  /\ UNCHANGED << written, time, due, peerGone >>
  /\ UNCHANGED << serverVars, clientVars, limiterVars >>

\* streamHandler(res) rejects; catch: handleStreamError writes the error
\* event and ends the response (lines 77-81, 90-93); finally: closeStream
\* clears the interval and calls res.end() again (lines 131-136).
StreamHandlerThrows ==
  /\ handlerState = "running"
  /\ handlerState' = "finished"
  /\ written' = Write("error")
  /\ heartbeatInterval' = "cleared"
  /\ resEnded' = resEnded + 2
  /\ UNCHANGED << time, due, peerGone >>
  /\ UNCHANGED << serverVars, clientVars, limiterVars >>

\* The callback of setInterval (lines 122-126): sendHeartbeat, every interval.
HeartbeatFires ==
  /\ heartbeatInterval = "armed"
  /\ time = due
  /\ written' = Write("heartbeat")
  /\ due' = time + IntervalTicks
  /\ UNCHANGED << handlerState, heartbeatInterval, resEnded, time, peerGone >>
  /\ UNCHANGED << serverVars, clientVars, limiterVars >>

\* The listener of 'close' / 'aborted' (lines 180-189, 209-213): the cleanup
\* clears the interval; streamHandler is not told.
ClientDisconnects ==
  /\ handlerState = "running"
  /\ ~peerGone
  /\ peerGone' = TRUE
  /\ heartbeatInterval' = "cleared"
  /\ UNCHANGED << handlerState, written, resEnded, time, due >>
  /\ UNCHANGED << serverVars, clientVars, limiterVars >>

\* A tick passes; a callback that is due runs first.
Tick ==
  /\ handlerState = "running"
  /\ time < MaxTime
  /\ ~(heartbeatInterval = "armed" /\ time = due)
  /\ time' = time + 1
  /\ UNCHANGED << handlerState, heartbeatInterval, written, resEnded, due, peerGone >>
  /\ UNCHANGED << serverVars, clientVars, limiterVars >>

HeartbeatInit == ServerIdle /\ ClientIdle /\ UtilIdle

(* -------------------- middleware: createRateLimit ---------------------- *)

\* Mutant of LimitReached: one request more is let through.
LimitReachedLate(count, limit) == count > limit

\* rateLimit[key].count >= max
LimitReached(count, limit) == count >= limit

\* rateLimit[key] = { count: 1, resetTime: now + windowMs }
NewWindow == [count |-> 1, resetTime |-> limiterNow + windowMs]

\* What the middleware did with a request: next() or the 429 answer.
Handled(key, passed) == Append(handled, [key |-> key, at |-> limiterNow, passed |-> passed])

\* The middleware returned by createRateLimit(windowMs, max), for a request
\* from ip for path.
RateLimiter ==
  /\ Len(handled) < MaxRequests
  /\ \E ip \in Ips, path \in Paths :
       LET key == Key(ip, path) IN
       IF rateLimit[key] = Absent \/ limiterNow > rateLimit[key].resetTime
       THEN /\ rateLimit' = [rateLimit EXCEPT ![key] = NewWindow]
            /\ handled' = Handled(key, TRUE)
       ELSE IF LimitReached(rateLimit[key].count, max)
       THEN /\ handled' = Handled(key, FALSE)
            /\ UNCHANGED rateLimit
       ELSE /\ rateLimit' = [rateLimit EXCEPT ![key].count = @ + 1]
            /\ handled' = Handled(key, TRUE)
  /\ UNCHANGED << windowMs, max, limiterNow >>
  /\ UNCHANGED << serverVars, clientVars, heartbeatVars >>

\* A millisecond passes.
LimiterTick ==
  /\ limiterNow < MaxLimiterNow
  /\ limiterNow' = limiterNow + 1
  /\ UNCHANGED << rateLimit, windowMs, max, handled >>
  /\ UNCHANGED << serverVars, clientVars, heartbeatVars >>

\* createRateLimit(windowMs, max) has been called and no request has come.
LimiterInit ==
  /\ ServerIdle
  /\ ClientIdle
  /\ HeartbeatIdle
  /\ EmptyTable
  /\ windowMs \in 1..MaxWindow
  /\ max \in 1..MaxLimit

LimiterNext ==
  \/ RateLimiter
  \/ LimiterTick

LimiterSpec == LimiterInit /\ [][LimiterNext]_vars

HeartbeatNext ==
  \/ StreamingHandlerBegins
  \/ StreamHandlerSends
  \/ StreamHandlerReturns
  \/ StreamHandlerThrows
  \/ HeartbeatFires
  \/ ClientDisconnects
  \/ Tick

HeartbeatSpec == HeartbeatInit /\ [][HeartbeatNext]_vars

(* ------------------------- vocabulary of claims ------------------------ *)

IsTerminal(e) == e.type \in {"complete", "error"}

\* The request passed validation, authentication and conversation resolution.
Resolved == IsStream /\ conversation # 0

StoreUnchanged == conversations = SeedConversations /\ messages = SeedMessages

\* The contents of the chunk events of es, concatenated in emission order.
RECURSIVE ConcatChunks(_)
ConcatChunks(es) ==
  IF es = <<>> THEN <<>>
  ELSE (IF Head(es).type = "chunk" THEN Head(es).content ELSE <<>>) \o ConcatChunks(Tail(es))

ChunkCount(es) == Cardinality({i \in 1..Len(es) : es[i].type = "chunk"})

\* The content of the stored message with identity id.
MessageContent(id) ==
  (CHOOSE m \in {messages[i] : i \in 1..Len(messages)} : m.id = id).content

\* Every provider attempt of the request failed.
Exhausted == retryCount = maxRetries

(* -------------------------------- C1 ----------------------------------- *)

\* C1: for a stream request that passed validation, authentication and
\* conversation resolution, the events written are one start first, then
\* chunks only, then one terminal event (complete or error) last; no event
\* follows a terminal event, and the channel is closed after it.
C1_EventOrder ==
  Resolved =>
    /\ \A i \in 1..Len(events) :
         /\ (i = 1) <=> (events[i].type = "start")
         /\ IsTerminal(events[i]) => i = Len(events)
         /\ 1 < i /\ i < Len(events) => events[i].type = "chunk"
    /\ pc = "done" => /\ Len(events) >= 2
                      /\ IsTerminal(Last(events))
                      /\ ended
    /\ ended => pc = "done"

(* -------------------------------- C2 ----------------------------------- *)

\* C2: when the provider call of a stream request fails on all 3 attempts,
\* no assistant message of that request is in the store, and the request
\* ends with an error event, never with complete.
C2_NoAssistantAfterExhaustion ==
  IsStream /\ Exhausted =>
    /\ assistantMessage = 0
    /\ \A i \in 1..Len(messages) :
         messages[i].role = "assistant" => messages[i] \in Range(SeedMessages)
    /\ pc = "done" => Last(events).type = "error"

(* -------------------------------- C3 ----------------------------------- *)

\* C3: when the provider call of a stream request succeeds, at once or after
\* failed attempts, the contents of all chunk events written, concatenated in
\* order, are exactly the content of the assistant message that was stored;
\* in the streamed branch and in the simulated (file) branch.
C3_ChunksMatchPersisted ==
  IsStream /\ ~Exhausted /\ assistantMessage # 0 =>
    ConcatChunks(events) = MessageContent(assistantMessage)

\* A streamed request completed after a failed attempt whose fragments had
\* already been forwarded.
C3_Witness ==
  /\ IsStream /\ ~IsFileBranch(req)
  /\ pc = "done" /\ events # <<>> /\ Last(events).type = "complete"
  /\ retryCount = 1
  /\ ChunkCount(events) > MaxFragments

(* -------------------------------- C4 ----------------------------------- *)

\* C4: a provider operation that fails on every attempt is invoked exactly 3
\* times, with waits of 1000 ms and 2000 ms between the attempts and none
\* after the third, and the third failure is surfaced as an error, not
\* turned into a success; in callOpenAIWithRetry and in the stream routes.
C4_RetryBound ==
  (IsStream \/ req.op = "callOpenAIWithRetry") /\ Exhausted =>
    /\ calls = 3
    /\ waits = <<1000, 2000>>
    /\ req.op = "callOpenAIWithRetry" => result = "threw"
    /\ IsStream /\ pc = "done" => Last(events).type = "error"

(* -------------------------------- C5 ----------------------------------- *)

\* The routes that take a conversation identity from the caller.
OwnershipOps == StreamOps \cup ConversationOps

\* The caller holds a valid credential and names a conversation that is not
\* the caller's: one owned by somebody else, or one that does not exist.
NamesForeign(r) ==
  /\ r.conversationId \in DOMAIN SeedConversations
  /\ SeedConversations[r.conversationId].userId # JwtVerify(r.credential)

NamesMissing(r) ==
  r.conversationId # 0 /\ r.conversationId \notin DOMAIN SeedConversations

\* What the caller observes of a finished request.
Observed == [status |-> status, body |-> body, data |-> data, events |-> events]

\* The answer to a request that names no conversation of the caller.  It is
\* computed from the operation and the other fields, never from the identity.
Refusal(r) ==
  IF r.op \in StreamOps /\ ValidationFails(r)
    THEN [status |-> 400, body |-> ValidationMessage(r), data |-> NoData, events |-> <<>>]
  ELSE IF r.op = "GET /:id/export" /\ ~SupportedFormat(r.format)
    THEN [status |-> 400, body |-> "Invalid export format", data |-> NoData, events |-> <<>>]
  ELSE [status |-> 404, body |-> "Conversation not found", data |-> NoData, events |-> <<>>]

\* The answers when the store fails during the request.
StoreFailureAnswers(r) ==
  IF r.op \in StreamOps
  THEN { [status |-> 401, body |-> "Invalid token", data |-> NoData, events |-> <<>>],
         [status |-> 200, body |-> "", data |-> NoData,
          events |-> <<ErrorEvent("Internal server error")>>] }
  ELSE { [status |-> 500, body |-> "Internal server error", data |-> NoData,
          events |-> <<>>] }

\* C5: a request with a valid credential of user A that names a conversation
\* owned by user B gets the answer of a request naming a conversation that
\* does not exist (not found), returns no row of B's conversation, creates no
\* message and changes nothing; on the stream routes, message listing, and
\* conversation update, delete and export.
C5_OwnershipIsolation ==
  /\ req.op \in OwnershipOps
  /\ UserExists(JwtVerify(req.credential))
  /\ NamesForeign(req) \/ NamesMissing(req)
  =>
  /\ StoreUnchanged
  /\ data = NoData
  /\ calls = 0
  /\ \A i \in 1..Len(events) : events[i].type = "error"
  /\ pc = "done" =>
       \/ Observed = Refusal(req)
       \/ /\ Observed \in StoreFailureAnswers(req)
          /\ status = 401 => ~ValidationFails(req)

\* User A asked to delete user B's conversation and was told it does not exist.
C5_Witness ==
  /\ req.op = "DELETE /:id"
  /\ req.credential = "token:A"
  /\ NamesForeign(req)
  /\ pc = "done"
  /\ status = 404

(* -------------------------------- C6 ----------------------------------- *)

CreatedConversations == DOMAIN conversations \ DOMAIN SeedConversations

\* C6: a request that names a conversation of the caller creates no
\* conversation; a request without conversationId that passed validation and
\* authentication creates exactly one conversation, owned by the caller.
\* (Stated for requests during which no store call failed.)
C6_ConversationCount ==
  /\ req.op \in StreamOps \cup {"findOrCreateConversation"}
  /\ pc = "done"
  /\ user \in Users
  /\ thrown # "StoreError"
  =>
  /\ req.conversationId # 0 => CreatedConversations = {}
  /\ req.conversationId = 0 =>
       /\ Cardinality(CreatedConversations) = 1
       /\ \A c \in CreatedConversations : conversations[c].userId = user

(* -------------------------------- C7 ----------------------------------- *)

\* The titles the claim allows for the request content; the marker of a
\* truncated title is accepted in both spellings, U+2026 and three dots.
SpecifiedTitles(r) ==
  IF ~r.contentGiven \/ Len(r.content) = 0 THEN {NewConversationTitle}
  ELSE IF Len(r.content) <= maxLength THEN {r.content}
  ELSE {Substring0(r.content, maxLength) \o Ellipsis,
        Substring0(r.content, maxLength) \o Dots}

\* C7: the title of a conversation created by a stream request is its
\* content when that has at most 50 characters, the first 50 characters
\* followed by the truncation marker when it is longer, and "New
\* Conversation" when the content is empty because a file is attached.
C7_TitleDerivation ==
  IsStream =>
    \A c \in CreatedConversations : conversations[c].title \in SpecifiedTitles(req)

(* -------------------------------- C8 ----------------------------------- *)

\* C8: on both transports a request is rejected with 400 exactly when its
\* content is empty or white space only and no file is attached; with empty
\* content and a file it passes validation and, when nothing else fails
\* (credential, conversation, store, provider), goes on to start, chunks and
\* complete.
C8_ValidationIff ==
  IsStream /\ pc # "begin" =>
    /\ (status = 400) <=> (ContentBlank(req) /\ ~req.hasFile)
    /\ /\ ContentBlank(req) /\ req.hasFile
       /\ pc = "done" /\ user \in Users /\ status # 404
       /\ thrown # "StoreError" /\ ~Exhausted
       => /\ events # <<>>
          /\ Head(events).type = "start"
          /\ Last(events).type = "complete"

(* -------------------------------- C9 ----------------------------------- *)

\* C9: a stream request whose content is longer than 10,000 characters is
\* answered 400 before any side effect: no conversation, no message, no
\* event, no provider call.
C9_LengthLimit ==
  IsStream /\ Len(req.content) > MaxContentLength =>
    /\ pc # "begin" => status = 400
    /\ StoreUnchanged
    /\ events = <<>>
    /\ calls = 0

(* -------------------------------- C10 ---------------------------------- *)

\* The credential is missing, malformed, or names no existing user.
BadCredential(r) == r.credential \in {"none", "garbage", "token:G"}

\* C10 as stated: a stream request with a missing, malformed or unknown
\* credential is answered 401 and leaves the store unchanged.
C10_Original ==
  IsStream /\ BadCredential(req) =>
    /\ StoreUnchanged
    /\ pc = "done" => status = 401

\* C10 as amended: a stream request with a missing, malformed or unknown
\* credential never changes the store, writes no event and calls no
\* provider; it is answered 401 when its content passes validation, and 400
\* (validation comes first) when it does not.
C10_NoPersistenceBeforeAuth ==
  IsStream /\ BadCredential(req) =>
    /\ StoreUnchanged
    /\ user = ""
    /\ events = <<>>
    /\ calls = 0
    /\ pc = "done" => status = (IF ValidationFails(req) THEN 400 ELSE 401)

\* A token that verifies but names no user was refused after validation.
C10_Witness ==
  /\ IsStream
  /\ req.credential = "token:G"
  /\ ~ValidationFails(req)
  /\ pc = "done"
  /\ status = 401

(* -------------------------------- C11 ---------------------------------- *)

\* The messages written since the request arrived (a stream request deletes none).
WrittenMessages == SubSeq(messages, Len(SeedMessages) + 1, Len(messages))

UserMessagesWritten == SelectSeq(WrittenMessages, LAMBDA m : m.role = "user")

C12_FailureReporting ==
  IsStream /\ pc = "done" =>
    /\ userMessage = 0 =>
         /\ events = <<>>
         /\ status \in {400, 401, 404, 500}
         /\ body # ""
    /\ userMessage # 0 =>
         /\ events # <<>>
         /\ Head(events).type = "start"
         /\ IsTerminal(Last(events))

(* -------------------------------- C13 ---------------------------------- *)

AssistantMessagesWritten == SelectSeq(WrittenMessages, LAMBDA m : m.role = "assistant")

\* C13: when a stream request that got as far as the history fetch ended
\* with a terminal error event, the store holds no assistant message written
\* by that request.
C13_NoAssistantOnError ==
  /\ IsStream /\ pc = "done"
  /\ userMessage # 0
  /\ events # <<>> /\ Last(events).type = "error"
  => AssistantMessagesWritten = <<>>

(* -------------------------------- C14 ---------------------------------- *)

\* The error texts the server's own code spells out for stream events.
ServerChosenTexts == {"Internal server error", "OpenAI API error occurred"}

\* C14: the text carried by every error stream event is one the server
\* chose; it is never the text of the provider's exception.
C14_SanitizedErrors ==
  IsStream =>
    \A i \in 1..Len(events) :
      events[i].type = "error" =>
        /\ events[i].error \in ServerChosenTexts
        /\ events[i].error \notin ProviderErrors

(* -------------------------------- C15 ---------------------------------- *)

\* The category of a user-facing message.
Category(message) ==
  CASE message = HighDemandMessage -> "high-demand"
    [] message = FileTooLargeMessage -> "file-too-large-or-high-demand"
    [] message = ConfigurationMessage -> "configuration"
    [] message = TimedOutMessage -> "timeout"
    [] message \in {FallbackText, IssueMessage, ClientGenericMessage} -> "generic"
    [] OTHER -> "other"

\* The rows of the taxonomy table that a failure text matches.
TaxonomyRows(text) ==
  {c \in {"high-demand", "file-too-large-or-high-demand", "configuration", "timeout"} :
     \/ c = "high-demand" /\ Includes(text, "rate_limit_exceeded")
     \/ c = "file-too-large-or-high-demand"
          /\ (Includes(text, "Request too large") \/ Includes(text, "tokens per min"))
     \/ c = "configuration" /\ Includes(text, "Invalid API key")
     \/ c = "timeout" /\ Includes(text, "timeout")}

\* The category the table gives to a failure text that matches one row or none.
Taxonomy(text) ==
  IF TaxonomyRows(text) = {} THEN "generic" ELSE CHOOSE c \in TaxonomyRows(text) : TRUE

\* C15: for a failure text matching at most one row of the taxonomy table,
\* the message returned by a server mapper (handleOpenAIError,
\* getErrorMessage) has the category of the table, both mappers give the
\* same category, and the client's handling of an error event carrying that
\* text shows a message of that category too.
C15_Taxonomy ==
  /\ req.op \in {"handleOpenAIError", "getErrorMessage"}
  /\ pc = "done"
  /\ Cardinality(TaxonomyRows(req.failure)) <= 1
  =>
  /\ Category(returned) = Taxonomy(req.failure)
  /\ Category(HandleOpenAIError(req.failure)) = Category(GetErrorMessage(req.failure))
  /\ Category(ErrorContent(req.failure)) = Category(returned)

(* -------------------------------- C16 ---------------------------------- *)

\* The request with the same fields sent over the other transport.
OtherTransport(r) ==
  [r EXCEPT !.op = IF r.op = "GET /stream" THEN "POST /stream" ELSE "GET /stream"]

\* C16: the validation verdict a stream request got is the verdict the other
\* transport gives to the same fields.
C16_TransportEquivalence ==
  IsStream /\ pc # "begin" =>
    /\ (status = 400) <=> ValidationFails(req)
    /\ ValidationFails(req) <=> ValidationFails(OtherTransport(req))

(* -------------------------------- C17 ---------------------------------- *)

\* C17: once the peer has closed the connection, no step of the handler
\* writes a further chunk event, begins a retry wait or invokes the provider.
C17_NoWorkAfterDisconnect ==
  [][closed => /\ calls' = calls
               /\ waits' = waits
               /\ ChunkCount(events') = ChunkCount(events)]_vars

(* -------------------------------- C18 ---------------------------------- *)

\* C18: on the file-completion path, a provider call that never answers is
\* followed, in the end, by a terminal error event and the closing of the
\* channel.
C18_FileCallBounded ==
  (IsStream /\ IsFileBranch(req) /\ pc = "awaiting")
    ~> (ended /\ events # <<>> /\ Last(events).type = "error")


\* ---------------------------------------------------------------------------
\* C19  Client, Idle to Sending
\* ---------------------------------------------------------------------------

\* A step in which the form is submitted.
SubmitStep == submits' = submits + 1

\* Identities the server gives to stored messages.
IsServerIdentity(id) == id[1] = "server"

\* C19: on submit, a provisional user message and a provisional empty
\* in-progress assistant message are appended to the local list in that order,
\* the assistant placeholder last; every message already in the list keeps its
\* position; the two placeholders carry temporary identities that differ from
\* each other and from every server identity.
C19_SubmitAppendsPlaceholders ==
  [][SubmitStep =>
       LET n == Len(clientMessages)
           after == clientMessages'
       IN /\ Len(after) = n + 2
          /\ SubSeq(after, 1, n) = clientMessages
          /\ after[n + 1].role = "user"
          /\ after[n + 1].id = tempUserMessage'
          /\ after[n + 2] = [id |-> streamingMessageId', role |-> "assistant",
                             content |-> <<>>, streaming |-> TRUE]
          /\ after[n + 1].id # after[n + 2].id
          /\ ~IsServerIdentity(after[n + 1].id)
          /\ ~IsServerIdentity(after[n + 2].id)]_vars

\* A submit onto a list that already holds messages, both identities taken in
\* the same millisecond, has just happened.
C19_Witness ==
  /\ loading /\ emitted = <<>> /\ transport \in {"fetching", "eventsource"}
  /\ Len(clientMessages) = 4
  /\ clientMessages[3].id = tempUserMessage
  /\ clientMessages[4].id = streamingMessageId
  /\ tempUserMessage[2] = streamingMessageId[2]

\* ---------------------------------------------------------------------------
\* C20  Client, on start
\* ---------------------------------------------------------------------------

\* A step in which a start event is handled.
StartStep == emitted = <<>> /\ emitted' = << "start" >>

\* C20: after a start event is handled, the local list contains the
\* server-confirmed user message exactly once, at the position the provisional
\* user message had; no message with the provisional user identity remains;
\* the in-progress assistant placeholder is the last element of the list.
C20_StartReplacesPlaceholder ==
  [][StartStep =>
       LET after == clientMessages'
       IN /\ Cardinality({i \in 1..Len(after) : after[i].id = SentUserId}) = 1
          /\ \E k \in 1..Len(clientMessages) :
               /\ clientMessages[k].id = tempUserMessage
               /\ k <= Len(after)
               /\ after[k].id = SentUserId
          /\ \A i \in 1..Len(after) : after[i].id # tempUserMessage
          /\ after # <<>>
          /\ Last(after).id = streamingMessageId
          /\ Last(after).streaming]_vars


\* ---------------------------------------------------------------------------
\* C21  Client, on start: the conversation reference
\* ---------------------------------------------------------------------------

\* C21: when a start event is handled, the local conversation reference is
\* switched to the event's conversation if there is no local conversation or
\* its identity differs from the event's; when the identities are equal the
\* local reference and the conversation list are left unchanged.
C21_ConversationSwitch ==
  [][StartStep =>
       IF currentConversation = 0 \/ currentConversation # SentConversation
       THEN currentConversation' = SentConversation
       ELSE UNCHANGED << currentConversation, clientConversations >>]_vars


\* ---------------------------------------------------------------------------
\* C22  Client, on chunk
\* ---------------------------------------------------------------------------

\* A step in which a chunk event is handled.
ChunkStep == emitted' = Append(emitted, "chunk")

\* The contents of the chunk events among the first k events of the channel,
\* in arrival order.
RECURSIVE ReceivedText(_)
ReceivedText(k) ==
  IF k = 0 THEN <<>>
  ELSE ReceivedText(k - 1) \o (IF emitted[k] = "chunk" THEN FragmentAt(k - 1) ELSE <<>>)

\* C22: a chunk event appends its content to the content of the in-progress
\* assistant placeholder, whose in-progress flag stays set; every other
\* message, the order of the list and the loading state are unchanged.  While
\* the stream is open and no terminal event has come, the placeholder's
\* content is the concatenation of the chunk contents in arrival order.
C22_ChunkAppends ==
  /\ [][ChunkStep =>
          /\ Len(clientMessages') = Len(clientMessages)
          /\ \A i \in 1..Len(clientMessages) :
               IF clientMessages[i].id = streamingMessageId
               THEN clientMessages'[i] =
                      [clientMessages[i] EXCEPT
                         !.content = clientMessages[i].content \o FragmentAt(Len(emitted)),
                         !.streaming = TRUE]
               ELSE clientMessages'[i] = clientMessages[i]
          /\ loading' = loading]_vars
  /\ [](Open /\ Started /\ ~Terminated =>
          \A i \in 1..Len(clientMessages) :
            clientMessages[i].id = streamingMessageId =>
              /\ clientMessages[i].content = ReceivedText(Len(emitted))
              /\ clientMessages[i].streaming)

\* Two chunks have been handled, after the messages loaded and the confirmed
\* user message; the placeholder holds both contents in order.
C22_Witness ==
  /\ emitted = << "start", "chunk", "chunk" >>
  /\ Len(clientMessages) = 4
  /\ clientMessages[4].id = streamingMessageId
  /\ clientMessages[4].content = FragmentAt(1) \o FragmentAt(2)
  /\ FragmentAt(1) \o FragmentAt(2) # FragmentAt(2) \o FragmentAt(1)
  /\ clientMessages[4].streaming
  /\ loading


\* ---------------------------------------------------------------------------
\* C23  Client, on complete
\* ---------------------------------------------------------------------------

\* A step in which a complete event is handled.
CompleteStep == emitted' = Append(emitted, "complete")

FailureStep ==
  /\ clientMessages' # clientMessages
  /\ ~(SubmitStep \/ StartStep \/ ChunkStep \/ CompleteStep)

IsErrorMessage(m) == m.id[1] = "error" /\ m.role = "assistant" /\ ~m.streaming

\* C24: handling an error event or a transport-level failure removes the
\* in-progress assistant placeholder, appends exactly one locally synthesized
\* error message, and returns the client to Idle: loading is false and no
\* message with the in-progress flag set remains.  A request gets one error
\* message: the list never holds more error messages than requests made.
C24_FailureHandling ==
  /\ [](Cardinality({i \in 1..Len(clientMessages) : IsErrorMessage(clientMessages[i])})
         <= submits)
  /\ [][FailureStep =>
       LET kept == SelectSeq(clientMessages, LAMBDA m : ~m.streaming /\ m.id # tempUserMessage)
           keptWithUser == SelectSeq(clientMessages, LAMBDA m : ~m.streaming)
           after == clientMessages'
       IN /\ after # <<>>
          /\ IsErrorMessage(Last(after))
          /\ DropLast(after) \in {kept, keptWithUser}
          /\ \A i \in 1..Len(after) : ~after[i].streaming
          /\ ~loading']_vars


\* ---------------------------------------------------------------------------
\* C25  Client: events after Idle
\* ---------------------------------------------------------------------------

\* A step in which an event of the request is handled after a terminal event
\* of that request was handled.
LateEventStep ==
  /\ Terminated
  /\ submits' = submits
  /\ Len(emitted') = Len(emitted) + 1

\* C25: an event delivered for a request after its terminal event changes
\* neither the message list, nor the loading flag, nor the conversation
\* reference.
C25_LateEventsIgnored ==
  [][LateEventStep =>
       UNCHANGED << clientMessages, loading, currentConversation >>]_vars


\* ---------------------------------------------------------------------------
\* C26  Client liveness
\* ---------------------------------------------------------------------------

\* C26: a request that entered Sending returns to Idle in the end, with no
\* message left in the in-progress state, when its channel delivers a
\* terminal event, fails, or is closed by the server.
C26_ReturnsToIdle ==
  loading ~> (~loading /\ \A i \in 1..Len(clientMessages) : ~clientMessages[i].streaming)


\* ---------------------------------------------------------------------------
\* C27  The keep-alive of createStreamingHandler
\* ---------------------------------------------------------------------------

\* C27: the interval is cleared once the response is ended and once the
\* client has disconnected; no keep-alive is written after a terminal event;
\* a keep-alive is written only when no event was sent during the interval
\* before it.
C27_KeepAlive ==
  /\ resEnded > 0 \/ peerGone => heartbeatInterval # "armed"
  /\ \A i, j \in 1..Len(written) :
       i < j /\ written[i].kind \in {"complete", "error"} => written[j].kind # "heartbeat"
  /\ \A i, j \in 1..Len(written) :
       i < j /\ written[i].kind # "heartbeat" /\ written[j].kind = "heartbeat"
         => written[i].at + IntervalTicks <= written[j].at


\* ---------------------------------------------------------------------------
\* C28  The rate limiter
\* ---------------------------------------------------------------------------

\* The requests of key passed to the route at a time from a up to b.
Passed(key, a, b) ==
  {i \in 1..Len(handled) :
     handled[i].key = key /\ handled[i].passed /\ a <= handled[i].at /\ handled[i].at <= b}

Stage(p) ==
  CASE p = "begin" -> 0
    [] p = "authenticate" -> 1
    [] p = "resolve" -> 2
    [] p = "userMessage" -> 3
    [] p = "history" -> 4
    [] p \in {"attempt", "stream", "simulate", "awaiting"} -> 5
    [] p = "persist" -> 6
    [] p = "touch" -> 7
    [] p = "done" -> 8

HasEvent(type) == \E i \in 1..Len(events) : events[i].type = type

\* C29: the steps of a stream request run one after the other in the order
\* authenticate, resolve conversation, persist user message, emit start,
\* fetch history, provider call with chunk events, persist assistant
\* message, touch updatedAt, emit complete: the handler never goes back to
\* an earlier step, the effect of a step is there only when the effects of
\* all earlier steps are, no provider call is issued before start is
\* written, no chunk event is written once the assistant message is stored,
\* and complete is written only when the assistant message is stored and
\* updatedAt is the latest write of the store.
C29_StepOrder ==
  /\ [](IsStream =>
         /\ conversation # 0 => user # ""
         /\ userMessage # 0 => conversation # 0
         /\ HasEvent("start") => userMessage # 0 /\ events[1].type = "start"
         /\ openaiMessages # <<>> => HasEvent("start")
         /\ calls > 0 => HasEvent("start") /\ openaiMessages # <<>>
         /\ HasEvent("chunk") => calls > 0
         /\ assistantMessage # 0 => calls > 0 /\ Stage(pc) >= 7
         /\ HasEvent("complete") =>
              /\ assistantMessage # 0
              /\ Last(messages).id = assistantMessage
              /\ conversations[conversation].updatedAt = clock
              /\ Last(events).type = "complete")
  /\ [][IsStream =>
          /\ Stage(pc') >= Stage(pc)
          /\ calls' # calls => HasEvent("start") /\ Stage(pc) = 5
          /\ ChunkCount(events') # ChunkCount(events) =>
               assistantMessage = 0 /\ assistantMessage' = 0 /\ Stage(pc) = 5
          /\ assistantMessage' # assistantMessage =>
               Stage(pc) = 6 /\ events' = events
          /\ HasEvent("complete")' /\ ~HasEvent("complete") => Stage(pc) = 7]_vars

\* A request ran through all steps: several chunk events, then the stored
\* assistant message, the touched conversation and complete.
C29_Witness ==
  /\ IsStream
  /\ pc = "done"
  /\ ChunkCount(events) >= 2
  /\ assistantMessage # 0
  /\ Last(events).type = "complete"

(* -------------------------------- C30 ---------------------------------- *)

\* The fragments that the attempt in progress has read from the provider's
\* stream so far, concatenated.
RECURSIVE StreamedText(_)
StreamedText(k) == IF k = 0 THEN <<>> ELSE StreamedText(k - 1) \o FragmentAt(k)

\* The words of the file answer of the attempt in progress, joined again.
RECURSIVE JoinedWords(_)
JoinedWords(k) ==
  IF k = 0 THEN <<>>
  ELSE JoinedWords(k - 1) \o (IF k = 1 THEN <<>> ELSE <<" ">>) \o words[k]

\* The answer text of the last attempt alone.
LastAttemptText ==
  IF IsFileBranch(req) THEN JoinedWords(Len(words)) ELSE StreamedText(streamPos)

\* C30: when a provider attempt of a stream request failed and a later
\* attempt succeeded, the stored assistant message holds the text of the
\* successful attempt only, and the chunk events written carry that text
\* only, without text of a failed attempt before it.
C30_RetriesTransparent ==
  IsStream /\ retryCount >= 1 /\ ~Exhausted /\ assistantMessage # 0 =>
    /\ MessageContent(assistantMessage) = LastAttemptText
    /\ ConcatChunks(events) = LastAttemptText

(* -------------------------------- C31 ---------------------------------- *)

\* C31: when the operation given to callOpenAIWithRetry first succeeds on
\* attempt k (1 <= k <= 3), it was invoked exactly k times, k - 1 waits
\* occurred, the wait after failed attempt i being 1000 ms x i, the call
\* returns the result without surfacing an error, and neither a wait nor
\* another invocation follows the success.
C31_StopsAtFirstSuccess ==
  /\ [](req.op = "callOpenAIWithRetry" /\ result = "returned" =>
          /\ calls = retryCount + 1
          /\ calls \in 1..maxRetries
          /\ Len(waits) = calls - 1
          /\ \A i \in 1..Len(waits) : waits[i] = 1000 * i
          /\ thrown = ""
          /\ pc = "done")
  /\ [][req.op = "callOpenAIWithRetry" /\ result = "returned" =>
          calls' = calls /\ waits' = waits /\ result' = result]_vars

\* The operation succeeded on its third attempt.
C31_Witness ==
  /\ req.op = "callOpenAIWithRetry"
  /\ result = "returned"
  /\ calls = 3

(* -------------------------------- C32 ---------------------------------- *)

\* The whitespace-delimited tokens of a text, in order.
RECURSIVE Tokens(_)
Tokens(s) ==
  LET ws == {i \in 1..Len(s) : s[i] \in WhiteSpace}
  IN  IF s = <<>> THEN <<>>
      ELSE IF ws = {} THEN <<s>>
      ELSE (IF Min(ws) = 1 THEN <<>> ELSE <<SubSeq(s, 1, Min(ws) - 1)>>)
             \o Tokens(SubSeq(s, Min(ws) + 1, Len(s)))

\* The chunk events written, in order.
ChunkEvents == SelectSeq(events, LAMBDA e : e.type = "chunk")

\* C32: when the simulated streaming of a file answer is through, one chunk
\* event was written per whitespace-delimited token of the text, in the
\* order of the text; an empty text gave no chunk, and no chunk is empty or
\* whitespace only.
C32_OneChunkPerToken ==
  IsStream /\ IsFileBranch(req) /\ idx = Len(words) + 1 =>
    /\ Len(ChunkEvents) = Len(Tokens(fullResponse))
    /\ \A i \in 1..Len(ChunkEvents) :
         /\ Trim(ChunkEvents[i].content) # <<>>
         /\ i <= Len(Tokens(fullResponse))
              => Trim(ChunkEvents[i].content) = Tokens(fullResponse)[i]

(* -------------------------------- C33 ---------------------------------- *)

\* C33: when the file call of a stream request has been issued, the
\* instruction text sent with the file is the trimmed content of the
\* request, and the default instruction when the trimmed content is empty.
C33_InstructionText ==
  IsStream /\ IsFileBranch(req) /\ calls > 0 =>
    InputText(req) = IF Trim(req.content) = <<>> THEN DefaultInstruction
                     ELSE Trim(req.content)

(* -------------------------------- C34 ---------------------------------- *)

\* C34: a keep-alive line and a record of an unknown type leave the message
\* list, the loading flag, the streaming placeholder, the conversation
\* reference and the connection as they are, and the events that follow are
\* still taken: after such a line the stream is open and not terminated.
C34_OtherLinesIgnored ==
  /\ [][KeepAliveArrives \/ UnknownRecordArrives =>
          /\ UNCHANGED << clientMessages, loading, streamingMessageId,
                          tempUserMessage, transport, timers >>
          /\ UNCHANGED navVars
          /\ Open' /\ ~Terminated']_vars
  /\ [](emitted # <<>> /\ Last(emitted) \in {"heartbeat", "other"} /\ Open =>
          ENABLED HandleChunk \/ ENABLED HandleComplete)

\* A chunk and the complete event were handled after an ignored line: the
\* placeholder was replaced by the server's message.
C34_Witness ==
  /\ \E i \in 1..Len(emitted) : \E j \in 1..Len(emitted) :
       /\ i < j /\ j < Len(emitted)
       /\ emitted[i] \in {"heartbeat", "other"}
       /\ emitted[j] = "chunk"
  /\ Last(emitted) = "complete"
  /\ ~loading
  /\ transport = "closed"

(* -------------------------------- C35 ---------------------------------- *)

\* A request was sent and neither a terminal event nor a failure of the
\* transport has ended it.
InFlight == transport \in {"fetching", "eventsource", "fetch"} /\ ~Terminated

\* C35: at most one request is in flight: while one is, every submit is
\* ignored; a submit that is taken (placeholders added, request sent) was
\* made with loading false, and without a file its text is not blank.
C35_OneRequestInFlight ==
  /\ [](InFlight =>
          \A inputMessage \in InputMessages : \A attachedFile \in BOOLEAN :
            SubmitIgnored(inputMessage, attachedFile))
  /\ [][SubmitStep =>
          /\ ~loading
          /\ transport' = "eventsource"
               => clientMessages'[Len(clientMessages') - 1].content # <<>>]_vars

(* -------------------------------- C36 ---------------------------------- *)

\* C36: handling a start event takes out of the local list only the two
\* provisional placeholders of the request: every other message, and so
\* every server-confirmed one, is still in the list afterwards, and the
\* assistant placeholder is the last element again; also when a message
\* load was answered between the submit and the start event.
C36_StartRemovesOnlyPlaceholders ==
  [][StartStep =>
       /\ \A i \in 1..Len(clientMessages) :
            clientMessages[i].id \notin {tempUserMessage, streamingMessageId}
              => \E j \in 1..Len(clientMessages') :
                   clientMessages'[j] = clientMessages[i]
       /\ Last(clientMessages').id = streamingMessageId]_vars

(* -------------------------------- C37 ---------------------------------- *)

\* The synthesized error messages in the local list.
ErrorMessages == {i \in 1..Len(clientMessages) : IsErrorMessage(clientMessages[i])}

\* A step of a callback that an earlier request left behind: the timer of a
\* placeholder that is not the one of the last request goes off.
LeftOverCallback ==
  \E placeholder \in timers :
    placeholder # streamingMessageId /\ timers' = timers \ {placeholder}

\* C37: the failure handling of a request runs once and only for its own
\* request: an error message is appended only while the request it is for is
\* in Sending (loading is true), so never a second time for a request that
\* has already returned to Idle, and a callback left over from an earlier
\* request neither appends a message nor clears the loading flag.
C37_FailureHandledOnce ==
  /\ [][Cardinality(ErrorMessages') > Cardinality(ErrorMessages) => loading]_vars
  /\ [][LeftOverCallback => UNCHANGED << clientMessages, loading >>]_vars

(* -------------------------------- C38 ---------------------------------- *)

\* Identities made up by the client for the placeholders of a request.
IsTemporaryIdentity(id) == id[1] \in {"temp", "streaming"}

\* C38: when the last request has returned to Idle (loading is false and no
\* request is in flight), by complete, by an error event, by a failure of
\* the transport or by a failure while the stream was set up, the local list
\* holds no message with a temporary identity: neither a provisional user
\* message nor an in-progress assistant placeholder.
C38_NoPlaceholderInIdle ==
  submits > 0 /\ ~loading /\ ~InFlight =>
    \A i \in 1..Len(clientMessages) : ~IsTemporaryIdentity(clientMessages[i].id)

(* -------------------------------- C39 ---------------------------------- *)

\* C39: an invocation of createStreamingHandler that is through has called
\* res.end() exactly once, whether streamHandler returned or threw and
\* whether or not the client disconnected; before that the response is not
\* ended, and nothing is written to a response that was ended.
C39_EndedOnce ==
  /\ [](/\ handlerState = "finished" => resEnded = 1
        /\ handlerState # "finished" => resEnded = 0)
  /\ [][resEnded > 0 => written' = written]_vars

(* -------------------------------- C40 ---------------------------------- *)

\* C40: a stream request with blank content, which passed validation only
\* because a file is attached, issues provider calls of the file branch
\* only, never the streamed chat completion, whatever filename and file
\* data are.
C40_FileRequestTakesFileBranch ==
  IsStream /\ req.hasFile /\ ContentBlank(req) /\ calls > 0 => IsFileBranch(req)

====
